---------------------------- MODULE Spec2Model ----------------------------
(***************************************************************************)
(* Model of the crawl frontier (UrlQueue, src/spider/urlQueue.ts), of the  *)
(* traversal orchestrator (Crawler, src/spider/crawler.ts), of the capture *)
(* session (ConsentTester, src/scanner/consentTester.ts), of the           *)
(* classification engine (CookieAnalyzer, src/scanner/cookieAnalyzer.ts)   *)
(* and of the page scanner (CookieScanner, src/scanner/cookieScanner.ts)   *)
(* of the cookie-monster compliance scanner.                               *)
(*                                                                         *)
(* The specifications share the state; pc tells them apart:                *)
(*   Spec          a client drives one UrlQueue through its public methods *)
(*                 (enqueue, dequeue, markVisited) with arbitrary          *)
(*                 arguments;                                              *)
(*   SpecCrawl     one Crawler.crawl() run over a site whose pages answer  *)
(*                 and link nondeterministically;                          *)
(*   SpecAll       either of the two (their disjoint union);               *)
(*   SpecCrawlFair one Crawler.crawl() run to its end, every await of the  *)
(*                 run settling;                                           *)
(*   SpecConsent   one ConsentTester.testConsent() call on a page;         *)
(*   SpecAnalyze   CookieAnalyzer.analyzeCookie() applied to cookies;      *)
(*   SpecFilter    one UrlQueue.enqueue() call applied to URL spellings;   *)
(*   SpecBatch     CookieAnalyzer.analyzeCookies() applied to batches;     *)
(*   SpecAggregate one CookieScanner.scanPages() call over pages;          *)
(*   SpecOverlap   two ConsentTester.testConsent() calls on one instance,  *)
(*                 in flight at the same time.                             *)
(***************************************************************************)
EXTENDS Integers, Sequences, FiniteSets, TLC

VARIABLES
    queue,      \* UrlQueue.queue: UrlQueueItem[]
    visited,    \* UrlQueue.visited: Set<string>
    baseDomain, \* UrlQueue.baseDomain
    ret,        \* outcome of the last UrlQueue method call
    accepted,   \* history: the items enqueue pushed, in order
    taken,      \* history: the items dequeue returned, in order
    pc,         \* position of the caller / of Crawler.crawl()
    browser,    \* Crawler.browser: "null" | "open" | "closed"
    pages,      \* Crawler.pages: PageInfo[]
    errors,     \* Crawler.errors: CrawlError[]
    config,     \* Crawler.config: the maxDepth and maxPages of CrawlConfig
    fetched,    \* what the browser answered to the last crawlPage call
    openPages,  \* the pages of Crawler.browser that are open
    launches,   \* history: the calls of chromium.launch() by Crawler.init()
    extraction, \* history: how extractLinks ended in the last crawlPage call
    tpc,        \* position of ConsentTester.testConsent()
    tbrowser,   \* ConsentTester.browser: "null" | "open" | "closed"
    contexts,   \* the browser contexts that are open, oldest first
    site,       \* the page under test: its consent buttons and cookies
    result,     \* the ConsentTestResult being filled by testConsent()
    outcome,    \* how testConsent() settled: what the caller receives
    events,     \* history: what testConsent() did to the browser, in order
    cookie,     \* the Cookie handed to CookieAnalyzer.analyzeCookie()
    analysis,   \* the CookieAnalysis analyzeCookie() returned
    batch,      \* the Cookie[] handed to CookieAnalyzer.analyzeCookies()
    analyses,   \* the CookieAnalysis[] analyzeCookies() returned
    scanned,    \* the pages CookieScanner.scanPages() is done with
    scanResults, \* the ScanResult[] scanPages() hands to aggregateResults()
    aggregated, \* the AggregatedScanResults aggregateResults() returned
    thisBrowser, \* ConsentTester.browser of an instance called twice: 0 for
                \* null, or the position in `launched` of the browser it holds
    launched,   \* the browsers chromium.launch() gave: "open" | "closed"
    calls       \* the testConsent() calls in flight on that instance

vars == <<queue, visited, baseDomain, ret, accepted, taken,
          pc, browser, pages, errors, config, fetched, openPages, launches,
          extraction,
          tpc, tbrowser, contexts, site, result, outcome, events,
          cookie, analysis, batch, analyses, scanned, scanResults, aggregated,
          thisBrowser, launched, calls>>

queueVars == <<queue, visited, baseDomain, ret, accepted, taken>>
crawlVars ==
    <<pc, browser, pages, errors, config, fetched, openPages, launches, extraction>>
consentVars == <<tpc, tbrowser, contexts, site, result, outcome, events>>
analyzerVars == <<cookie, analysis>>
batchVars == <<batch, analyses>>
aggregateVars == <<scanned, scanResults, aggregated>>
overlapVars == <<thisBrowser, launched, calls>>
moreVars == <<batchVars, aggregateVars, overlapVars>>
scanVars == <<consentVars, analyzerVars, moreVars>>

---------------------------------------------------------------------------
(* Bounds of the model.                                                    *)

\* most method calls that push an item in one run of Spec
MaxEnqueued == 2
\* most URLs a client marks visited in one run of Spec
MaxVisited == 2
\* largest maxDepth configured in SpecCrawl
MaxCfgDepth == 2
\* most anchors extracted from one page in SpecCrawl
MaxLinks == 2
\* most items one run of SpecCrawl takes from the queue
MaxFetches == 3

---------------------------------------------------------------------------
(* URLs.  A URL string is modelled by the parts the WHATWG URL parser      *)
(* splits it into: a string that does not parse has valid = FALSE.         *)
(* pathname is "/" seg1 "/" seg2 ... followed by `slashes` further "/".    *)

U(h, p, s, q, f) ==
    [valid |-> TRUE, host |-> h, path |-> p, slashes |-> s, query |-> q, frag |-> f]

\* 'not-a-valid-url': new URL() throws on it
InvalidUrl ==
    [valid |-> FALSE, host |-> "", path |-> <<"not-a-valid-url">>, slashes |-> 0,
     query |-> <<>>, frag |-> ""]

\* an absent parentUrl
NoUrl ==
    [valid |-> FALSE, host |-> "", path |-> <<>>, slashes |-> 0,
     query |-> <<>>, frag |-> ""]

BaseHost == "example.com"

Root == U(BaseHost, <<>>, 0, <<>>, "")
PageA == U(BaseHost, <<"a">>, 0, <<>>, "")
PageB == U(BaseHost, <<"b">>, 0, <<>>, "")

\* code-unit order of the query keys used
KeyOrder == <<"a", "b", "p", "replytocom">>

KeyRank(k) == CHOOSE i \in 1..Len(KeyOrder) : KeyOrder[i] = k

\* URLSearchParams.sort(): stable sort by name
SortParams(q) == SortSeq(q, LAMBDA x, y : KeyRank(x) < KeyRank(y))

hostname(url) == url.host

\* UrlQueue.normalizeUrl: drop the fragment, drop ONE trailing slash of a
\* pathname longer than "/", sort the query parameters; a string that does
\* not parse is returned as it is.
normalizeUrl(url) ==
    IF ~url.valid THEN url
    ELSE [url EXCEPT !.frag = "",
                     !.slashes = IF url.slashes > 0 THEN url.slashes - 1 ELSE 0,
                     !.query = SortParams(url.query)]

resourceExtensions ==
    {".jpg", ".jpeg", ".png", ".gif", ".svg", ".webp", ".ico",
     ".pdf", ".zip", ".tar", ".gz", ".mp4", ".mp3", ".avi",
     ".css", ".js", ".woff", ".woff2", ".ttf", ".eot",
     ".xml", ".txt", ".json", ".rss", ".feed"}

\* directory patterns '/x/' of skipPatterns
skipDirs == {"feed", "rss", "wp-json", "api", "tag", "author", "category", "page"}
\* patterns '?k=' of skipPatterns
skipFirstKeys == {"replytocom", "share", "print"}
\* patterns '/?k=' of skipPatterns
skipSlashKeys == {"p", "page_id"}

\* the lowercased extension of a path segment ("" when it has none)
SegExt(seg) ==
    CASE seg = "image.jpg" -> ".jpg"
      [] seg = "STYLE.CSS" -> ".css"
      [] seg = "doc.pdf" -> ".pdf"
      [] seg = "style.css" -> ".css"
      [] seg = "script.js" -> ".js"
      [] seg = "font.woff2" -> ".woff2"
      [] OTHER -> ""

\* the lowercased href ends with a listed extension: only the last path
\* segment can end the href, and only when nothing follows it
EndsWithResourceExt(url) ==
    /\ url.frag = ""
    /\ url.query = <<>>
    /\ url.slashes = 0
    /\ Len(url.path) > 0
    /\ SegExt(url.path[Len(url.path)]) \in resourceExtensions

\* the lowercased href includes a listed pattern
IncludesSkipPattern(url) ==
    \/ \E i \in 1..Len(url.path) :
          /\ url.path[i] \in skipDirs
          /\ (i < Len(url.path) \/ url.slashes > 0)
    \/ /\ url.query # <<>>
       /\ \/ url.query[1] \in skipFirstKeys
          \/ /\ url.query[1] \in skipSlashKeys
             /\ (url.slashes > 0 \/ url.path = <<>>)

\* isResourceUrl without the skipPatterns test
isResourceUrlMutExtOnly(url) == EndsWithResourceExt(url)

\* UrlQueue.isResourceUrl
isResourceUrl(url) ==
    EndsWithResourceExt(url) \/ IncludesSkipPattern(url)

---------------------------------------------------------------------------
(* UrlQueue.                                                               *)

Item(u, d, p) == [url |-> u, depth |-> d, parentUrl |-> p]

\* `undefined`, what dequeue returns on an empty queue
NoItem == Item(NoUrl, -1, NoUrl)

\* what the last method call was given and what it returned
Result(op, url, ok, item) == [op |-> op, url |-> url, ok |-> ok, item |-> item]

\* the hostnames of the model that end with "." + base
SubdomainsOf(base) == IF base = "example.com" THEN {"sub.example.com"} ELSE {}

\* enqueueAccepts without the visited test
enqueueAcceptsMutNoVisited(vis, base, n) ==
    /\ n.valid
    /\ hostname(n) = base
    /\ ~isResourceUrl(n)

\* enqueueAccepts with hostname.endsWith(baseDomain) for the host test
enqueueAcceptsMutSuffixHost(vis, base, n) ==
    /\ n \notin vis
    /\ n.valid
    /\ (hostname(n) = base \/ hostname(n) \in SubdomainsOf(base))
    /\ ~isResourceUrl(n)

\* the early returns of enqueue, in the order of the code
enqueueAccepts(vis, base, n) ==
    IF n \in vis THEN FALSE
    ELSE IF ~n.valid THEN FALSE
    ELSE IF hostname(n) # base THEN FALSE
    ELSE IF isResourceUrl(n) THEN FALSE
    ELSE TRUE

\* pushedItem with the depth reset
pushedItemMutDepth(item, n) == [item EXCEPT !.url = n, !.depth = 0]

\* { ...item, url: normalizedUrl }
pushedItem(item, n) == [item EXCEPT !.url = n]

\* enqueue refusing a URL that already waits in the queue
enqueueMutDedup(q, vis, base, item) ==
    LET n == normalizeUrl(item.url)
    IN  IF enqueueAccepts(vis, base, n) /\ \A i \in 1..Len(q) : q[i].url # n
        THEN [ok |-> TRUE, queue |-> Append(q, pushedItem(item, n))]
        ELSE [ok |-> FALSE, queue |-> q]

\* UrlQueue.enqueue as a function of the queue: the boolean it returns and
\* the queue it leaves
enqueue(q, vis, base, item) ==
    LET n == normalizeUrl(item.url)
    IN  IF enqueueAccepts(vis, base, n)
        THEN [ok |-> TRUE, queue |-> Append(q, pushedItem(item, n))]
        ELSE [ok |-> FALSE, queue |-> q]

\* dequeue with queue.pop() for queue.shift()
dequeueMutLifo(q) ==
    IF q = <<>> THEN [item |-> NoItem, queue |-> q, found |-> FALSE]
    ELSE [item |-> q[Len(q)], queue |-> SubSeq(q, 1, Len(q) - 1), found |-> TRUE]

\* UrlQueue.dequeue: queue.shift()
dequeue(q) ==
    IF q = <<>> THEN [item |-> NoItem, queue |-> q, found |-> FALSE]
    ELSE [item |-> Head(q), queue |-> Tail(q), found |-> TRUE]

\* markVisited replacing the set by the one URL
markVisitedMutReplace(vis, url) == {normalizeUrl(url)}

\* UrlQueue.markVisited: visited.add(normalizeUrl(url))
markVisited(vis, url) == vis \cup {normalizeUrl(url)}

\* UrlQueue.visitedCount
visitedCount == Cardinality(visited)

---------------------------------------------------------------------------
(* The state of a ConsentTester and of a CookieAnalyzer before any call.   *)

\* the state one capture phase returns, reduced to the names of its cookies
NoState == {}

\* the result literal testConsent() starts from; "undefined" stands for the
\* absent consentVendor
EmptyResult ==
    [beforeConsent |-> NoState,
     afterAcceptAll |-> NoState,
     afterRejectAll |-> NoState,
     consentMechanismFound |-> FALSE,
     consentVendor |-> "undefined"]

\* a page under test: the selectors page.$() resolves to an element for
\* (present), those among them whose click() rejects (unclickable), and the
\* selectors page.$() rejects for (broken)
Site(present, unclickable, broken) ==
    [present |-> present, unclickable |-> unclickable, broken |-> broken]

\* no page is under test
NoSite == Site({}, {}, {})

\* where testConsent() stands: at "idle" | "start" | "body" | "finally" |
\* "settled", in which phase, and whether an error is on its way to the caller
At(at, phase, throwing) == [at |-> at, phase |-> phase, throwing |-> throwing]

\* a new ConsentTester: browser is null, no call was made
ConsentIdle ==
    /\ tpc = At("idle", "", FALSE)
    /\ tbrowser = "null"
    /\ contexts = <<>>
    /\ site = NoSite
    /\ result = EmptyResult
    /\ outcome = "none"
    /\ events = <<>>

\* Cookie of scanner/types.ts without value, path and foundOnUrl, which the
\* analysis never reads; sameSite "" and expires 0 stand for absent fields
Cookie(name, domain, isThirdParty, secure, httpOnly, sameSite, expires) ==
    [name |-> name, domain |-> domain, isThirdParty |-> isThirdParty,
     secure |-> secure, httpOnly |-> httpOnly, sameSite |-> sameSite,
     expires |-> expires]

\* no cookie was analyzed
NoCookie == Cookie("", "", FALSE, FALSE, FALSE, "", 0)

\* CookieAnalysis, with the score calculateRisk reached and the time it read
CookieAnalysis(c, vendor, thirdParty, risk, purpose, category, syncing, unnecessary, now) ==
    [cookie |-> c, actualVendor |-> vendor,
     isActuallyThirdParty |-> thirdParty,
     riskLevel |-> risk.riskLevel, riskReasons |-> risk.riskReasons,
     purpose |-> purpose, category |-> category,
     isCookieSyncing |-> syncing, isUnnecessary |-> unnecessary,
     score |-> risk.score, now |-> now]

\* no analysis was returned
NoAnalysis ==
    CookieAnalysis(NoCookie, "", FALSE,
                   [riskLevel |-> "", riskReasons |-> <<>>, score |-> 0],
                   "", "", FALSE, FALSE, 0)

\* a new CookieAnalyzer before analyzeCookie() is called
AnalyzerIdle ==
    /\ cookie = NoCookie
    /\ analysis = NoAnalysis

\* what a call returned: nothing yet, or the value
NotReturned == [returned |-> FALSE, value |-> <<>>]

Returned(value) == [returned |-> TRUE, value |-> value]

\* no analyzeCookies call, no aggregateResults call, no overlapping
\* testConsent calls
ScanIdle ==
    /\ batch = <<>>
    /\ analyses = NotReturned
    /\ scanned = 0
    /\ scanResults = <<>>
    /\ aggregated = NotReturned
    /\ thisBrowser = 0
    /\ launched = <<>>
    /\ calls = <<>>

---------------------------------------------------------------------------
(* Spec: a client of one UrlQueue.                                         *)

\* the spellings a client passes to enqueue and markVisited
ClientUrls ==
    {U(BaseHost, <<"a">>, s, <<>>, "") : s \in {0, 1, 2}}
    \cup {Root,
          U(BaseHost, <<"a">>, 0, <<>>, "section"),
          U(BaseHost, <<"a">>, 0, <<"b", "a">>, ""),
          U(BaseHost, <<"a">>, 0, <<"a", "b">>, ""),
          U("sub.example.com", <<"a">>, 0, <<>>, ""),
          U("different.com", <<"a">>, 0, <<>>, ""),
          U(BaseHost, <<"image.jpg">>, 0, <<>>, ""),
          U(BaseHost, <<"wp-json", "a">>, 0, <<>>, ""),
          InvalidUrl}

\* the spellings a client passes to markVisited
VisitUrls ==
    {Root,
     U(BaseHost, <<"a">>, 1, <<>>, ""),
     U(BaseHost, <<"a">>, 2, <<>>, ""),
     U(BaseHost, <<"a">>, 0, <<>>, "section"),
     U(BaseHost, <<"a">>, 0, <<"b", "a">>, "")}

\* the depths a client passes to enqueue
ClientDepths == {3}

\* what page.goto() and the calls after it did for one URL:
\*   kind    "newPageThrows" | "gotoThrows" | "noResponse" | "response"
\*   status  response.status()
\*   titleOk whether page.title() resolved
Response(kind, status, titleOk) == [kind |-> kind, status |-> status, titleOk |-> titleOk]

\* no crawlPage call was made
NoResponse == Response("none", 0, FALSE)

\* new UrlQueue(startUrl): baseDomain, then enqueue({url: startUrl, depth: 0})
Construct(startUrl) ==
    LET r == enqueue(<<>>, {}, hostname(startUrl), Item(startUrl, 0, NoUrl))
    IN  /\ baseDomain = hostname(startUrl)
        /\ queue = r.queue
        /\ visited = {}
        /\ accepted = r.queue
        /\ taken = <<>>
        /\ ret = Result("constructor", startUrl, r.ok, NoItem)

Init ==
    /\ Construct(Root)
    /\ pc = "client"
    /\ browser = "null"
    /\ pages = <<>>
    /\ errors = <<>>
    /\ config = [maxDepth |-> 0, maxPages |-> 0]
    /\ fetched = NoResponse
    /\ openPages = 0
    /\ extraction = "none"
    /\ launches = 0
    /\ ConsentIdle
    /\ AnalyzerIdle
    /\ ScanIdle

\* queue.enqueue(item)
Enqueue(item) ==
    LET r == enqueue(queue, visited, baseDomain, item)
    IN  /\ pc = "client"
        /\ r.ok => Len(accepted) <= MaxEnqueued
        /\ queue' = r.queue
        /\ accepted' = IF r.ok THEN Append(accepted, r.queue[Len(r.queue)]) ELSE accepted
        /\ ret' = Result("enqueue", item.url, r.ok, NoItem)
        /\ UNCHANGED <<visited, baseDomain, taken>>
        /\ UNCHANGED crawlVars
        /\ UNCHANGED scanVars

\* queue.dequeue()
Dequeue ==
    LET r == dequeue(queue)
    IN  /\ pc = "client"
        /\ queue' = r.queue
        /\ taken' = IF r.found THEN Append(taken, r.item) ELSE taken
        /\ ret' = Result("dequeue", NoUrl, r.found, r.item)
        /\ UNCHANGED <<visited, baseDomain, accepted>>
        /\ UNCHANGED crawlVars
        /\ UNCHANGED scanVars

\* queue.markVisited(url)
MarkVisited(url) ==
    /\ pc = "client"
    /\ Cardinality(markVisited(visited, url)) <= MaxVisited
    /\ visited' = markVisited(visited, url)
    /\ ret' = Result("markVisited", url, TRUE, NoItem)
    /\ UNCHANGED <<queue, baseDomain, accepted, taken>>
    /\ UNCHANGED crawlVars
    /\ UNCHANGED scanVars

Next ==
    \/ \E u \in ClientUrls, d \in ClientDepths : Enqueue(Item(u, d, NoUrl))
    \/ Dequeue
    \/ \E u \in VisitUrls : MarkVisited(u)

Spec == Init /\ [][Next]_vars

---------------------------------------------------------------------------
(* SpecCrawl: one run of Crawler.crawl().                                  *)

\* the maxPages the crawl is configured with
CfgMaxPages == 2

\* MAX_PAGES of Crawler
MAX_PAGES == 100

\* the absolute URLs the anchors of a page resolve to; InvalidUrl stands for
\* an href on which new URL(link, currentUrl) throws
LinkUrls ==
    {PageA, PageB,
     U(BaseHost, <<"a">>, 1, <<>>, ""),
     U("sub.example.com", <<"a">>, 0, <<>>, ""),
     InvalidUrl}

\* the href lists a page can carry
LinkLists == UNION {[1..n -> LinkUrls] : n \in 0..MaxLinks}

\* the statuses a navigation answers with
Statuses == {200, 300, 404}

\* PageInfo without its title and timestamp, which nothing reads
PageInfo(url, depth, statusCode) == [url |-> url, depth |-> depth, statusCode |-> statusCode]

\* CrawlError without its timestamp
CrawlError(url, error) == [url |-> url, error |-> error]

\* the message crawlPage records for a response that is no success: the
\* message of what was thrown, or `HTTP ${statusCode}`
ErrorMessage(resp) ==
    CASE resp.kind = "newPageThrows" -> [text |-> "newPage failed", status |-> 0]
      [] resp.kind = "gotoThrows" -> [text |-> "Timeout 30000ms exceeded", status |-> 0]
      [] resp.kind = "noResponse" -> [text |-> "No response received", status |-> 0]
      [] resp.kind = "response" /\ ~(resp.status >= 200 /\ resp.status < 300)
            -> [text |-> "HTTP", status |-> resp.status]
      [] OTHER -> [text |-> "title failed", status |-> 0]

RECURSIVE enqueueLinks(_, _, _, _, _, _)
\* the for loop of Crawler.extractLinks: every href that resolves is
\* enqueued at currentDepth + 1 with the current URL as parent
enqueueLinks(q, vis, base, links, currentUrl, currentDepth) ==
    IF links = <<>> THEN q
    ELSE LET link == Head(links)
             q1 == IF link.valid
                   THEN enqueue(q, vis, base,
                                Item(link, currentDepth + 1, currentUrl)).queue
                   ELSE q
         IN  enqueueLinks(q1, vis, base, Tail(links), currentUrl, currentDepth)

\* Crawler.extractLinks: a throw of page.content() is caught and logged
extractLinks(q, vis, base, page, currentUrl, currentDepth) ==
    IF page.contentOk
    THEN enqueueLinks(q, vis, base, page.links, currentUrl, currentDepth)
    ELSE q

\* isSuccess without the statusCode < 300 test
isSuccessMutNoUpper(resp) ==
    /\ resp.kind = "response"
    /\ resp.status >= 200
    /\ resp.titleOk

\* the test of crawlPage for a page that is recorded
isSuccess(resp) ==
    /\ resp.kind = "response"
    /\ resp.status >= 200
    /\ resp.status < 300
    /\ resp.titleOk

\* withinDepth with <= for <
withinDepthMutOffByOne(depth, maxDepth) == depth <= maxDepth

\* the test of crawlPage for extracting links
withinDepth(depth, maxDepth) == depth < maxDepth

\* how the extractLinks call of one crawlPage call ended: "none" when it
\* was not called, "failed" when page.content() threw into its catch
extractionOf(resp, depth, maxDepth, page) ==
    IF ~(isSuccess(resp) /\ withinDepth(depth, maxDepth)) THEN "none"
    ELSE IF page.contentOk THEN "ok"
    ELSE "failed"

\* new Crawler(config)
InitCrawl ==
    /\ Construct(Root)
    /\ pc = "constructed"
    /\ browser = "null"
    /\ pages = <<>>
    /\ errors = <<>>
    /\ config \in [maxDepth : (-1)..MaxCfgDepth, maxPages : {CfgMaxPages}]
    /\ fetched = NoResponse
    /\ openPages = 0
    /\ extraction = "none"
    /\ launches = 0
    /\ ConsentIdle
    /\ AnalyzerIdle
    /\ ScanIdle

\* whether crawlPage holds a page after browser.newPage()
pageOpened(resp) == resp.kind # "newPageThrows"

\* pageClosed with page.close() at the end of the try block only
pageClosedMutOnSuccess(resp) == pageOpened(resp) /\ isSuccess(resp)

\* the finally of crawlPage: if (page) await page.close().catch(() => {})
pageClosed(resp) == pageOpened(resp)

\* the pages one crawlPage call leaves open
pagesLeftOpen(resp) == IF pageOpened(resp) /\ ~pageClosed(resp) THEN 1 ELSE 0

\* cleanup without the browser.close() call
cleanupMutNoClose(b) == b

\* Crawler.cleanup and ConsentTester.cleanup: if (this.browser) { await
\* this.browser.close(); this.browser = null }; "closed" is the closed
\* browser the field no longer points to
cleanup(b) == IF b = "open" THEN "closed" ELSE b

\* crawl(): init() resolves
Launch ==
    /\ pc = "constructed"
    /\ pc' = "loop"
    /\ browser' = "open"
    /\ launches' = launches + 1
    /\ UNCHANGED <<pages, errors, config, fetched, openPages, extraction>>
    /\ UNCHANGED queueVars
    /\ UNCHANGED scanVars

\* crawl(): chromium.launch() rejects; the finally runs cleanup, which finds
\* no browser, and the error of the catch reaches the caller
LaunchFails ==
    /\ pc = "constructed"
    /\ pc' = "threw"
    /\ browser' = cleanup(browser)
    /\ launches' = launches + 1
    /\ UNCHANGED <<pages, errors, config, fetched, openPages, extraction>>
    /\ UNCHANGED queueVars
    /\ UNCHANGED scanVars

\* one turn of the while loop on an item deeper than maxDepth: continue
SkipTurn ==
    LET d == dequeue(queue)
    IN  /\ pc = "loop"
        /\ d.found
        /\ d.item.depth > config.maxDepth
        /\ queue' = d.queue
        /\ taken' = Append(taken, d.item)
        /\ ret' = Result("dequeue", NoUrl, TRUE, d.item)
        /\ fetched' = NoResponse
        /\ UNCHANGED <<visited, baseDomain, accepted>>
        /\ extraction' = "none"
        /\ UNCHANGED <<pc, browser, pages, errors, config, openPages, launches>>
        /\ UNCHANGED scanVars

\* one turn of the while loop that calls crawlPage(item.url, item.depth);
\* resp is what the browser does, page what page.content() gives
CrawlTurn(resp, page) ==
    LET d == dequeue(queue)
        url == d.item.url
        depth == d.item.depth
        vis == markVisited(visited, url)
        q == IF withinDepth(depth, config.maxDepth)
             THEN extractLinks(d.queue, vis, baseDomain, page, url, depth)
             ELSE d.queue
    IN  /\ pc = "loop"
        /\ browser = "open"
        /\ d.found
        /\ ~(d.item.depth > config.maxDepth)
        /\ taken' = Append(taken, d.item)
        /\ ret' = Result("dequeue", NoUrl, TRUE, d.item)
        /\ fetched' = resp
        /\ openPages' = openPages + pagesLeftOpen(resp)
        /\ extraction' = extractionOf(resp, depth, config.maxDepth, page)
        /\ IF isSuccess(resp)
           THEN /\ pages' = Append(pages, PageInfo(url, depth, resp.status))
                /\ visited' = vis
                /\ queue' = q
                /\ accepted' = accepted \o SubSeq(q, Len(d.queue) + 1, Len(q))
                /\ UNCHANGED errors
           ELSE /\ errors' = Append(errors, CrawlError(url, ErrorMessage(resp)))
                /\ queue' = d.queue
                /\ UNCHANGED <<pages, visited, accepted>>
        /\ UNCHANGED <<baseDomain, pc, browser, config, launches>>
        /\ UNCHANGED scanVars

\* SkipTurn while the run is within the fetches explored
SkipItem ==
    /\ Len(taken) < MaxFetches
    /\ SkipTurn

\* CrawlTurn while the run is within the fetches explored
CrawlPage(resp, page) ==
    /\ Len(taken) < MaxFetches
    /\ CrawlTurn(resp, page)

\* the queue is empty: crawl() returns this.pages, the finally runs cleanup
Return ==
    /\ pc = "loop"
    /\ queue = <<>>
    /\ pc' = "done"
    /\ browser' = cleanup(browser)
    /\ UNCHANGED <<pages, errors, config, fetched, openPages, launches, extraction>>
    /\ UNCHANGED queueVars
    /\ UNCHANGED scanVars

\* what the browser can do on one crawlPage call: page.title() is reached
\* only after a 2xx response
Responses ==
    {Response(k, 0, FALSE) : k \in {"newPageThrows", "gotoThrows", "noResponse"}}
    \cup {Response("response", st, TRUE) : st \in Statuses}
    \cup {Response("response", st, FALSE) : st \in {x \in Statuses : x \div 100 = 2}}

\* page.content() throws, or was never called
NoContent == [contentOk |-> FALSE, links |-> <<>>]

\* what page.content() can give on a page whose title was read
Contents(resp) ==
    IF resp.kind = "response" /\ resp.status \div 100 = 2 /\ resp.titleOk
    THEN {NoContent} \cup {[contentOk |-> TRUE, links |-> l] : l \in LinkLists}
    ELSE {NoContent}

NextCrawl ==
    \/ Launch
    \/ LaunchFails
    \/ SkipItem
    \/ \E resp \in Responses : \E page \in Contents(resp) : CrawlPage(resp, page)
    \/ Return

SpecCrawl == InitCrawl /\ [][NextCrawl]_vars

---------------------------------------------------------------------------
(* SpecCrawlFair: one run of Crawler.crawl() followed to its end. Every    *)
(* await of the run settles (a navigation completes or times out), so the  *)
(* loop always takes its next turn.                                        *)

\* the href lists of the pages of a site whose pages link to each other in
\* cycles, to themselves and twice to the same page
SiteLinkLists ==
    {<<>>, <<PageB>>, <<PageA, PageB>>, <<PageA, PageA>>, <<Root, PageA>>}

\* what page.content() can give on a page of that site
SiteContents(resp) ==
    IF resp.kind = "response" /\ resp.status \div 100 = 2 /\ resp.titleOk
    THEN {NoContent} \cup {[contentOk |-> TRUE, links |-> l] : l \in SiteLinkLists}
    ELSE {NoContent}

NextCrawlFair ==
    \/ Launch
    \/ LaunchFails
    \/ SkipTurn
    \/ \E resp \in Responses : \E page \in SiteContents(resp) : CrawlTurn(resp, page)
    \/ Return

SpecCrawlFair == InitCrawl /\ [][NextCrawlFair]_vars /\ WF_vars(NextCrawlFair)

\* either use of the frontier: a client of UrlQueue, or a Crawler
InitAll == Init \/ InitCrawl

NextAll == Next \/ NextCrawl

SpecAll == InitAll /\ [][NextAll]_vars

---------------------------------------------------------------------------
(* ConsentTester: the consent buttons.                                     *)

\* String.prototype.includes: p occurs in s
includes(s, p) ==
    \E i \in 1..(Len(s) - Len(p) + 1) : SubSeq(s, i, i + Len(p) - 1) = p

\* acceptSelectors of findAndClickConsent, in list order
acceptSelectors ==
    <<"button:has-text(\"Accept\")",
      "button:has-text(\"Accept All\")",
      "button:has-text(\"Accept all\")",
      "button:has-text(\"Agree\")",
      "button:has-text(\"I agree\")",
      "button:has-text(\"OK\")",
      "a:has-text(\"Accept\")",
      "[role=\"button\"]:has-text(\"Accept\")",
      "#onetrust-accept-btn-handler",
      ".onetrust-close-btn-handler",
      ".cc-accept",
      ".cc-allow",
      "#CybotCookiebotDialogBodyLevelButtonLevelOptinAllowAll",
      ".osano-cm-accept-all",
      ".osano-cm-button--type_accept",
      "button[data-osano=\"accept\"]",
      "#accept-all-button",
      ".t-accept-all-button",
      ".t-preference-button[data-action=\"accept\"]",
      "#truste-consent-button",
      ".trustarc-accept-btn",
      ".truste-button1",
      ".gdpr-cookie-accept",
      ".cookie-accept",
      ".accept-cookies",
      ".consent-accept">>

\* rejectSelectors of findAndClickConsent, in list order
rejectSelectors ==
    <<"button:has-text(\"Reject\")",
      "button:has-text(\"Reject All\")",
      "button:has-text(\"Decline\")",
      "button:has-text(\"No thanks\")",
      "a:has-text(\"Reject\")",
      "#onetrust-reject-all-handler",
      ".onetrust-reject-all",
      "#CybotCookiebotDialogBodyButtonDecline",
      ".osano-cm-deny-all",
      ".osano-cm-button--type_deny",
      "button[data-osano=\"deny\"]",
      "#reject-all-button",
      ".t-reject-all-button",
      ".t-preference-button[data-action=\"reject\"]",
      "#truste-consent-required",
      ".trustarc-reject-btn",
      ".truste-button2",
      ".cookie-reject",
      ".reject-cookies",
      ".consent-reject">>

\* the elements of a list
Range(seq) == {seq[i] : i \in 1..Len(seq)}

\* a list back to front
Reverse(seq) == [i \in 1..Len(seq) |-> seq[Len(seq) + 1 - i]]

\* selectorsFor with each list walked from its end
selectorsForMutReversed(action) ==
    IF action = "accept" THEN Reverse(acceptSelectors) ELSE Reverse(rejectSelectors)

\* const selectors = action === 'accept' ? acceptSelectors : rejectSelectors
selectorsFor(action) ==
    IF action = "accept" THEN acceptSelectors ELSE rejectSelectors

\* the vendor findAndClickConsent derives from the selector it clicked;
\* "undefined" stands for the vendor left unset
detectVendor(selector) ==
    IF includes(selector, "onetrust") THEN "OneTrust"
    ELSE IF includes(selector, "Cookiebot") \/ includes(selector, "Cybot")
    THEN "Cookiebot"
    ELSE IF includes(selector, "osano") THEN "Osano"
    ELSE IF includes(selector, "termly") \/ includes(selector, "t-")
    THEN "Termly"
    ELSE IF includes(selector, "truste") \/ includes(selector, "trustarc")
    THEN "TrustArc"
    ELSE IF includes(selector, "cc-") THEN "Cookie Consent"
    ELSE "undefined"

\* what findAndClickConsent returns, with the selectors it looked up and the
\* selectors it called click() on, in order; clicked is the selector whose
\* click() resolved, "" when there is none
ClickResult(found, vendor, clicked, tried, attempts) ==
    [found |-> found, vendor |-> vendor, clicked |-> clicked,
     tried |-> tried, attempts |-> attempts]

RECURSIVE trySelectors(_, _, _, _)
\* the for loop of findAndClickConsent on page st: a selector whose page.$()
\* rejects (st.broken) or resolves to null (not in st.present) is passed over,
\* so is one whose click() rejects (st.unclickable); the first click() that
\* resolves ends the loop
trySelectors(st, selectors, tried, attempts) ==
    IF selectors = <<>>
    THEN ClickResult(FALSE, "undefined", "", tried, attempts)
    ELSE LET selector == Head(selectors)
             looked == Append(tried, selector)
         IN  IF selector \in st.broken \/ selector \notin st.present
             THEN trySelectors(st, Tail(selectors), looked, attempts)
             ELSE IF selector \in st.unclickable
             THEN trySelectors(st, Tail(selectors), looked, Append(attempts, selector))
             ELSE ClickResult(TRUE, detectVendor(selector), selector,
                              looked, Append(attempts, selector))

\* ConsentTester.findAndClickConsent(page, action)
findAndClickConsent(st, action) == trySelectors(st, selectorsFor(action), <<>>, <<>>)

---------------------------------------------------------------------------
(* SpecConsent: one call of ConsentTester.testConsent(url).                *)

\* the cookies the page sets when it loads
OnLoad == {"session"}

\* the cookies the page sets once its accept button was clicked
OnAccept == {"_ga", "_fbp"}

\* the cookies the page sets once its reject button was clicked
OnReject == {"consent_declined"}

\* browser.newContext(): a context of its own, with no cookies
newContext(ctxs, phase) == Append(ctxs, [phase |-> phase, cookies |-> {}])

\* closeContext without the context.close() call
closeContextMutLeak(ctxs) == ctxs

\* the finally of captureState and captureStateWithAction: context.close()
closeContext(ctxs) == SubSeq(ctxs, 1, Len(ctxs) - 1)

\* findAndClickConsent was not called
NoClick == ClickResult(FALSE, "undefined", "", <<>>, <<>>)

\* context.cookies() of a context that started with jar, after the page
\* loaded and after what click did
cookiesAfter(jar, phase, click) ==
    jar \cup OnLoad
        \cup (IF click.found /\ phase = "accept" THEN OnAccept ELSE {})
        \cup (IF click.found /\ phase = "reject" THEN OnReject ELSE {})

\* what captureState / captureStateWithAction returns
PhaseResult(state, consentFound, vendor) ==
    [state |-> state, consentFound |-> consentFound, vendor |-> vendor]

\* storePhase with the reject phase stored like the accept phase
storePhaseMutRejectFlags(res, phase, r) ==
    CASE phase = "before" -> [res EXCEPT !.beforeConsent = r.state]
      [] phase = "accept" -> [res EXCEPT !.afterAcceptAll = r.state,
                                         !.consentMechanismFound = r.consentFound,
                                         !.consentVendor = r.vendor]
      [] phase = "reject" -> [res EXCEPT !.afterRejectAll = r.state,
                                         !.consentMechanismFound = r.consentFound,
                                         !.consentVendor = r.vendor]

\* the assignments of testConsent after each phase returned
storePhase(res, phase, r) ==
    CASE phase = "before" -> [res EXCEPT !.beforeConsent = r.state]
      [] phase = "accept" -> [res EXCEPT !.afterAcceptAll = r.state,
                                         !.consentMechanismFound = r.consentFound,
                                         !.consentVendor = r.vendor]
      [] phase = "reject" -> [res EXCEPT !.afterRejectAll = r.state]

\* nextPhase with the reject phase before the accept phase
nextPhaseMutRejectFirst(phase) ==
    CASE phase = "before" -> "reject"
      [] phase = "reject" -> "accept"
      [] OTHER -> ""

\* the phase testConsent goes on with after phase returned, "" after the last
nextPhase(phase) ==
    CASE phase = "before" -> "accept"
      [] phase = "accept" -> "reject"
      [] OTHER -> ""

\* testerCleanup without the browser.close() call
testerCleanupMutNoClose(b) == b

\* ConsentTester.cleanup: if (this.browser) { await this.browser.close();
\* this.browser = null }
testerCleanup(b) == IF b = "open" THEN "closed" ELSE b

\* settles without the waitForTimeout(2000) call
settlesMutNever(click) == FALSE

\* captureStateWithAction: if (consentFound) await page.waitForTimeout(2000)
settles(click) == click.found

\* one thing testConsent did: ev is "launch" | "newContext" | "loadWait" (the
\* waitForTimeout(3000) after page.goto) | "click" (what findAndClickConsent
\* returned) | "settleWait" (the waitForTimeout(2000) after it) | "captured"
\* (what the phase returned) | "closeContext" | "closeBrowser"
Ev(ev, phase, click, state) == [ev |-> ev, phase |-> phase, click |-> click, state |-> state]

\* pages with one consent button
SingleSites ==
    {Site({s}, {}, {}) : s \in Range(acceptSelectors) \cup Range(rejectSelectors)}

\* the buttons of pages with a consent banner
Banners ==
    {{},
     {"#onetrust-accept-btn-handler", "#CybotCookiebotDialogBodyButtonDecline"},
     {"button:has-text(\"Accept\")", "#onetrust-accept-btn-handler",
      "#onetrust-reject-all-handler"},
     {"#truste-consent-button", ".truste-button2"},
     {".cc-accept", ".cookie-accept", ".cookie-reject"}}

\* the pages testConsent is called on
Sites ==
    SingleSites
    \cup UNION {{Site(b, u, k) : u \in SUBSET b,
                                 k \in {{}, {"button:has-text(\"Accept\")"}}}
                 : b \in Banners}

\* new ConsentTester(), and the page its testConsent will be called on
InitConsent ==
    /\ Construct(Root)
    /\ pc = "consent"
    /\ browser = "null"
    /\ pages = <<>>
    /\ errors = <<>>
    /\ config = [maxDepth |-> 0, maxPages |-> 0]
    /\ fetched = NoResponse
    /\ openPages = 0
    /\ extraction = "none"
    /\ launches = 0
    /\ tpc = At("idle", "", FALSE)
    /\ tbrowser = "null"
    /\ contexts = <<>>
    /\ site \in Sites
    /\ result = EmptyResult
    /\ outcome = "none"
    /\ events = <<>>
    /\ AnalyzerIdle
    /\ ScanIdle

\* testConsent(url): init() resolves, the result literal is built
Call ==
    /\ pc = "consent"
    /\ tpc.at = "idle"
    /\ tbrowser' = "open"
    /\ result' = EmptyResult
    /\ tpc' = At("start", "before", FALSE)
    /\ events' = Append(events, Ev("launch", "", NoClick, NoState))
    /\ UNCHANGED <<contexts, site, outcome>>
    /\ UNCHANGED <<queueVars, crawlVars, analyzerVars, moreVars>>

\* testConsent(url): chromium.launch() rejects
CallLaunchFails ==
    /\ pc = "consent"
    /\ tpc.at = "idle"
    /\ tpc' = At("finally", "", TRUE)
    /\ UNCHANGED <<tbrowser, contexts, site, result, outcome, events>>
    /\ UNCHANGED <<queueVars, crawlVars, analyzerVars, moreVars>>

\* the two awaits before the try of captureState / captureStateWithAction:
\* browser.newContext(), then context.newPage(); either can reject
StartPhase(o) ==
    LET phase == tpc.phase
    IN  /\ pc = "consent"
        /\ tpc.at = "start"
        /\ tbrowser = "open"
        /\ IF o = "newContextThrows"
           THEN UNCHANGED <<contexts, events>>
           ELSE /\ contexts' = newContext(contexts, phase)
                /\ events' = Append(events, Ev("newContext", phase, NoClick, NoState))
        /\ tpc' = IF o = "ok" THEN At("body", phase, FALSE)
                  ELSE At("finally", phase, TRUE)
        /\ UNCHANGED <<tbrowser, site, result, outcome>>
        /\ UNCHANGED <<queueVars, crawlVars, analyzerVars, moreVars>>

\* the try and the finally of captureState / captureStateWithAction, then
\* the assignments of testConsent: page.goto() or the capture after the click
\* can reject; the context is closed either way
RunPhase(o) ==
    LET phase == tpc.phase
        clicks == phase # "before" /\ o # "gotoThrows"
        click == IF clicks THEN findAndClickConsent(site, phase) ELSE NoClick
        state == cookiesAfter(contexts[Len(contexts)].cookies, phase, click)
        r == PhaseResult(state, click.found, click.vendor)
        loadEv == IF o # "gotoThrows"
                  THEN <<Ev("loadWait", phase, NoClick, NoState)>> ELSE <<>>
        clickEv == IF clicks THEN <<Ev("click", phase, click, NoState)>> ELSE <<>>
        settleEv == IF clicks /\ settles(click)
                    THEN <<Ev("settleWait", phase, click, NoState)>> ELSE <<>>
        capturedEv == IF o = "ok" THEN <<Ev("captured", phase, click, state)>> ELSE <<>>
        closed == closeContext(contexts)
        closeEv == IF closed # contexts
                   THEN <<Ev("closeContext", phase, NoClick, NoState)>> ELSE <<>>
    IN  /\ pc = "consent"
        /\ tpc.at = "body"
        /\ contexts' = closed
        /\ events' = events \o loadEv \o clickEv \o settleEv \o capturedEv \o closeEv
        /\ IF o = "ok"
           THEN /\ result' = storePhase(result, phase, r)
                /\ tpc' = IF nextPhase(phase) = "" THEN At("finally", phase, FALSE)
                          ELSE At("start", nextPhase(phase), FALSE)
           ELSE /\ tpc' = At("finally", phase, TRUE)
                /\ UNCHANGED result
        /\ UNCHANGED <<tbrowser, site, outcome>>
        /\ UNCHANGED <<queueVars, crawlVars, analyzerVars, moreVars>>

\* the finally of testConsent: cleanup(), then the call settles with the
\* result or with the error
Settle ==
    LET b == testerCleanup(tbrowser)
    IN  /\ pc = "consent"
        /\ tpc.at = "finally"
        /\ tbrowser' = b
        /\ contexts' = IF b = "closed" THEN <<>> ELSE contexts
        /\ events' = IF b # tbrowser
                     THEN Append(events, Ev("closeBrowser", "", NoClick, NoState))
                     ELSE events
        /\ outcome' = IF tpc.throwing THEN "error" ELSE "result"
        /\ tpc' = At("settled", tpc.phase, tpc.throwing)
        /\ UNCHANGED <<site, result>>
        /\ UNCHANGED <<queueVars, crawlVars, analyzerVars, moreVars>>

NextConsent ==
    \/ Call
    \/ CallLaunchFails
    \/ \E o \in {"ok", "newContextThrows", "newPageThrows"} : StartPhase(o)
    \/ \E o \in {"ok", "gotoThrows", "captureThrows"} : RunPhase(o)
    \/ Settle

SpecConsent == InitConsent /\ [][NextConsent]_vars

---------------------------------------------------------------------------
(* CookieAnalyzer.                                                         *)

\* the letters String.prototype.toLowerCase changes, and what it makes of them
upperCase == "ABCDEFGHIJKLMNOPQRSTUVWXYZ"

lowerCase == "abcdefghijklmnopqrstuvwxyz"

\* toLowerCase of the one-character string ch
lowerChar(ch) ==
    IF \E i \in 1..Len(upperCase) : SubSeq(upperCase, i, i) = ch
    THEN LET i == CHOOSE j \in 1..Len(upperCase) : SubSeq(upperCase, j, j) = ch
         IN  SubSeq(lowerCase, i, i)
    ELSE ch

RECURSIVE toLowerCase(_)
\* String.prototype.toLowerCase
toLowerCase(s) ==
    IF Len(s) = 0 THEN s
    ELSE lowerChar(SubSeq(s, 1, 1)) \o toLowerCase(SubSeq(s, 2, Len(s)))

\* interface VendorInfo
VendorInfo(vendor, isThirdParty, purpose, category) ==
    [vendor |-> vendor, isThirdParty |-> isThirdParty,
     purpose |-> purpose, category |-> category]

\* one entry of the knownVendors map, and one vendors.set(pattern, info) call
SetCall(pattern, info) == [pattern |-> pattern, info |-> info]

\* the vendors.set(pattern, info) calls of loadKnownVendors, in source order
vendorSets ==
    <<SetCall("_ga", VendorInfo("Google Analytics", TRUE,
                 "Analytics tracking", "analytics")),
      SetCall("_gid", VendorInfo("Google Analytics", TRUE,
                 "Analytics tracking", "analytics")),
      SetCall("_gat", VendorInfo("Google Analytics", TRUE,
                 "Analytics tracking", "analytics")),
      SetCall("_gac", VendorInfo("Google Analytics", TRUE,
                 "Campaign tracking", "analytics")),
      SetCall("__utma", VendorInfo("Google Analytics (Legacy)", TRUE,
                 "User identification", "analytics")),
      SetCall("__utmb", VendorInfo("Google Analytics (Legacy)", TRUE,
                 "Session tracking", "analytics")),
      SetCall("__utmc", VendorInfo("Google Analytics (Legacy)", TRUE,
                 "Session tracking", "analytics")),
      SetCall("__utmt", VendorInfo("Google Analytics (Legacy)", TRUE,
                 "Throttle requests", "analytics")),
      SetCall("__utmz", VendorInfo("Google Analytics (Legacy)", TRUE,
                 "Traffic source", "analytics")),
      SetCall("_gtm", VendorInfo("Google Tag Manager", TRUE,
                 "Tag management", "analytics")),
      SetCall("_clck", VendorInfo("Microsoft Clarity", TRUE,
                 "Session recording", "analytics")),
      SetCall("_clsk", VendorInfo("Microsoft Clarity", TRUE,
                 "Session recording", "analytics")),
      SetCall("clid", VendorInfo("Microsoft Clarity", TRUE,
                 "User identification", "analytics")),
      SetCall("muid", VendorInfo("Microsoft Bing", TRUE,
                 "User identification", "analytics")),
      SetCall("anonchk", VendorInfo("Microsoft", TRUE,
                 "Anonymous user check", "analytics")),
      SetCall("_uetsid", VendorInfo("Microsoft Bing Ads", TRUE,
                 "Session tracking", "analytics")),
      SetCall("_uetvid", VendorInfo("Microsoft Bing Ads", TRUE,
                 "Visitor identification", "analytics")),
      SetCall("_hjid", VendorInfo("Hotjar", TRUE,
                 "User identification", "analytics")),
      SetCall("_hjsessionid", VendorInfo("Hotjar", TRUE,
                 "Session tracking", "analytics")),
      SetCall("_hjincludedinsample", VendorInfo("Hotjar", TRUE,
                 "Sampling control", "analytics")),
      SetCall("mp_", VendorInfo("Mixpanel", TRUE,
                 "Product analytics", "analytics")),
      SetCall("ajs_", VendorInfo("Segment", TRUE,
                 "Analytics platform", "analytics")),
      SetCall("_hp2_", VendorInfo("Heap Analytics", TRUE,
                 "User analytics", "analytics")),
      SetCall("intercom", VendorInfo("Intercom", TRUE,
                 "Customer messaging", "functional")),
      SetCall("__hssrc", VendorInfo("HubSpot", TRUE,
                 "Session identification", "analytics")),
      SetCall("__hssc", VendorInfo("HubSpot", TRUE,
                 "Session count", "analytics")),
      SetCall("_fbp", VendorInfo("Facebook Pixel", TRUE,
                 "Ad targeting", "advertising")),
      SetCall("_fbc", VendorInfo("Facebook Pixel", TRUE,
                 "Click tracking", "advertising")),
      SetCall("fr", VendorInfo("Facebook", TRUE,
                 "Ad targeting", "advertising")),
      SetCall("xs", VendorInfo("Facebook", TRUE,
                 "Authentication", "advertising")),
      SetCall("c_user", VendorInfo("Facebook", TRUE,
                 "User identification", "advertising")),
      SetCall("datr", VendorInfo("Facebook", TRUE,
                 "Browser identification", "advertising")),
      SetCall("ide", VendorInfo("Google DoubleClick", TRUE,
                 "Ad targeting", "advertising")),
      SetCall("test_cookie", VendorInfo("Google DoubleClick", TRUE,
                 "Ad testing", "advertising")),
      SetCall("__gads", VendorInfo("Google Ads", TRUE,
                 "Ad serving", "advertising")),
      SetCall("__gpi", VendorInfo("Google Ads", TRUE,
                 "Ad personalization", "advertising")),
      SetCall("nid", VendorInfo("Google", TRUE,
                 "Ad preferences", "advertising")),
      SetCall("anid", VendorInfo("Google", TRUE,
                 "Anonymous ID", "advertising")),
      SetCall("dsid", VendorInfo("Google", TRUE,
                 "Ad targeting", "advertising")),
      SetCall("uuid", VendorInfo("MediaMath", TRUE,
                 "User identification", "advertising")),
      SetCall("tuuid", VendorInfo("Taboola", TRUE,
                 "User tracking", "advertising")),
      SetCall("taboola_", VendorInfo("Taboola", TRUE,
                 "Content recommendations", "advertising")),
      SetCall("outbrain", VendorInfo("Outbrain", TRUE,
                 "Content recommendations", "advertising")),
      SetCall("__atuvc", VendorInfo("AddThis", TRUE,
                 "Share tracking", "advertising")),
      SetCall("__atuvs", VendorInfo("AddThis", TRUE,
                 "Share tracking", "advertising")),
      SetCall("criteo", VendorInfo("Criteo", TRUE,
                 "Retargeting", "advertising")),
      SetCall("li_", VendorInfo("LinkedIn", TRUE,
                 "Social tracking", "social")),
      SetCall("lidc", VendorInfo("LinkedIn", TRUE,
                 "Social tracking", "social")),
      SetCall("bcookie", VendorInfo("LinkedIn", TRUE,
                 "Browser identification", "social")),
      SetCall("bscookie", VendorInfo("LinkedIn", TRUE,
                 "Secure browser identification", "social")),
      SetCall("lang", VendorInfo("LinkedIn", TRUE,
                 "Language preference", "social")),
      SetCall("lissc", VendorInfo("LinkedIn", TRUE,
                 "Member state tracking", "social")),
      SetCall("personalization_id", VendorInfo("Twitter/X", TRUE,
                 "Content personalization", "social")),
      SetCall("guest_id", VendorInfo("Twitter/X", TRUE,
                 "Guest tracking", "social")),
      SetCall("ct0", VendorInfo("Twitter/X", TRUE,
                 "CSRF protection", "social")),
      SetCall("_pinterest_sess", VendorInfo("Pinterest", TRUE,
                 "Session tracking", "social")),
      SetCall("_pin_unauth", VendorInfo("Pinterest", TRUE,
                 "User tracking", "social")),
      SetCall("_ttp", VendorInfo("TikTok", TRUE,
                 "User identification", "social")),
      SetCall("tt_webid", VendorInfo("TikTok", TRUE,
                 "Web visitor ID", "social")),
      SetCall("snitcher", VendorInfo("Snitcher", TRUE,
                 "B2B visitor tracking", "advertising")),
      SetCall("_fuid", VendorInfo("Freshworks", TRUE,
                 "User identification", "functional")),
      SetCall("hubspotutk", VendorInfo("HubSpot", TRUE,
                 "Visitor tracking", "advertising")),
      SetCall("__hstc", VendorInfo("HubSpot", TRUE,
                 "Visitor tracking", "advertising")),
      SetCall("__hssc", VendorInfo("HubSpot", TRUE,
                 "Session count", "advertising")),
      SetCall("_mkto_trk", VendorInfo("Marketo", TRUE,
                 "Lead tracking", "advertising")),
      SetCall("_sfmc_sub", VendorInfo("Salesforce Marketing Cloud", TRUE,
                 "Subscriber tracking", "advertising")),
      SetCall("pardot", VendorInfo("Pardot", TRUE,
                 "B2B marketing automation", "advertising")),
      SetCall("vuid", VendorInfo("Vimeo", TRUE,
                 "Video analytics", "functional")),
      SetCall("_gcl_", VendorInfo("Google Click Identifier", TRUE,
                 "Campaign tracking", "advertising")),
      SetCall("cookieyes", VendorInfo("CookieYes", TRUE,
                 "Consent management", "necessary")),
      SetCall("cookiebot", VendorInfo("Cookiebot", TRUE,
                 "Consent management", "necessary")),
      SetCall("onetrust", VendorInfo("OneTrust", TRUE,
                 "Consent management", "necessary")),
      SetCall("fs-consent", VendorInfo("Consent Manager", FALSE,
                 "Store consent preferences", "necessary")),
      SetCall("osano", VendorInfo("Osano", TRUE,
                 "Consent management", "necessary")),
      SetCall("termly", VendorInfo("Termly", TRUE,
                 "Consent management", "necessary")),
      SetCall("trustarc", VendorInfo("TrustArc", TRUE,
                 "Consent management", "necessary")),
      SetCall("optanon", VendorInfo("OneTrust", TRUE,
                 "Consent management", "necessary")),
      SetCall("_shopify_", VendorInfo("Shopify", FALSE,
                 "E-commerce functionality", "functional")),
      SetCall("cart", VendorInfo("Shopping Cart", FALSE,
                 "Shopping cart", "necessary")),
      SetCall("secure_customer_sig", VendorInfo("Shopify", FALSE,
                 "Customer authentication", "necessary")),
      SetCall("__cfduid", VendorInfo("Cloudflare", TRUE,
                 "Bot protection", "necessary")),
      SetCall("cf_", VendorInfo("Cloudflare", TRUE,
                 "Performance optimization", "necessary")),
      SetCall("optimizely", VendorInfo("Optimizely", TRUE,
                 "A/B testing", "functional")),
      SetCall("_vwo_", VendorInfo("VWO", TRUE,
                 "A/B testing", "functional")),
      SetCall("_ab", VendorInfo("A/B Testing Platform", TRUE,
                 "Experiment tracking", "functional"))>>

\* the calls that set a key for the first time, in order
firstSets ==
    SelectSeq(vendorSets,
              LAMBDA call : call = vendorSets[CHOOSE i \in 1..Len(vendorSets) :
                    /\ vendorSets[i].pattern = call.pattern
                    /\ \A j \in 1..(i - 1) : vendorSets[j].pattern # call.pattern])

\* the value of the last call that set the key
lastSet(pattern) ==
    vendorSets[CHOOSE i \in 1..Len(vendorSets) :
        /\ vendorSets[i].pattern = pattern
        /\ \A j \in (i + 1)..Len(vendorSets) : vendorSets[j].pattern # pattern].info

\* CookieAnalyzer.loadKnownVendors: the entries of the map in iteration
\* order; Map.prototype.set puts a new key at the end and gives a key the
\* map holds its new value in place
loadKnownVendors ==
    [i \in 1..Len(firstSets) |-> SetCall(firstSets[i].pattern,
                                         lastSet(firstSets[i].pattern))]

\* no entry of the map matched
NoVendor == VendorInfo("", FALSE, "", "")

\* matchVendor returning the last entry that matches
matchVendorMutLast(entries, cookieName, domain) ==
    LET hits == {i \in 1..Len(entries) :
                    \/ includes(cookieName, entries[i].pattern)
                    \/ includes(domain, entries[i].pattern)}
    IN  IF hits = {} THEN NoVendor
        ELSE entries[CHOOSE i \in hits : \A j \in hits : j <= i].info

RECURSIVE matchVendorFrom(_, _, _, _)
\* the for loop of detectActualVendor from the i-th entry on
matchVendorFrom(entries, i, cookieName, domain) ==
    IF i > Len(entries) THEN NoVendor
    ELSE IF \/ includes(cookieName, entries[i].pattern)
            \/ includes(domain, entries[i].pattern)
    THEN entries[i].info
    ELSE matchVendorFrom(entries, i + 1, cookieName, domain)

\* the for loop of detectActualVendor over knownVendors.entries()
matchVendor(entries, cookieName, domain) ==
    matchVendorFrom(entries, 1, cookieName, domain)

\* CookieAnalyzer.detectActualVendor
detectActualVendor(c) ==
    LET cookieName == toLowerCase(c.name)
        domain == toLowerCase(c.domain)
        known == matchVendor(loadKnownVendors, cookieName, domain)
    IN  IF known # NoVendor THEN known
        ELSE IF includes(domain, "google") \/ includes(domain, "doubleclick")
        THEN VendorInfo("Google", TRUE, "Analytics/Advertising", "advertising")
        ELSE IF includes(domain, "facebook") \/ includes(domain, "meta")
        THEN VendorInfo("Facebook/Meta", TRUE, "Social Media Tracking", "social")
        ELSE IF includes(domain, "linkedin")
        THEN VendorInfo("LinkedIn", TRUE, "Social Media Tracking", "social")
        ELSE IF includes(domain, "twitter") \/ includes(domain, "twimg")
        THEN VendorInfo("Twitter/X", TRUE, "Social Media Tracking", "social")
        ELSE IF includes(domain, "clarity.ms") \/ includes(domain, "bing.com")
        THEN VendorInfo("Microsoft Clarity", TRUE, "Analytics/Session Recording",
                        "analytics")
        ELSE IF includes(domain, "cloudflare")
        THEN VendorInfo("Cloudflare", TRUE, "Security/Bot protection", "functional")
        ELSE VendorInfo(IF c.isThirdParty THEN domain ELSE "First Party",
                        c.isThirdParty, "Unknown", "unknown")

\* one `if (...) { score += points; reasons.push(reason) }` of calculateRisk
Increment(applies, points, reason) ==
    [applies |-> applies, points |-> points, reason |-> reason]

\* Math.round(n / d) for n >= 0 and d > 0
Round(n, d) == (2 * n + d) \div (2 * d)

\* the seconds of 365 days: 365 * (24 * 60 * 60)
YearSeconds == 365 * (24 * 60 * 60)

\* the increments of calculateRisk, in source order; now is Date.now() / 1000
riskIncrements(c, vendorInfo, now) ==
    <<Increment(vendorInfo.isThirdParty, 3, "Third-party tracking service"),
      Increment(vendorInfo.category = "advertising", 3, "Advertising/tracking cookie"),
      Increment(vendorInfo.category = "analytics", 2, "Analytics tracking"),
      Increment(vendorInfo.category = "social", 2, "Social media tracking"),
      Increment(~c.secure /\ vendorInfo.isThirdParty, 2, "Not marked as Secure"),
      Increment(~c.httpOnly /\ vendorInfo.isThirdParty, 1, "Accessible via JavaScript"),
      Increment(c.sameSite = "None" \/ c.sameSite = "", 2,
                "Can be sent in cross-site requests"),
      Increment(c.expires # 0 /\ c.expires - now > YearSeconds, 1,
                IF c.expires - now > YearSeconds
                THEN "Long expiration (" \o ToString(Round(c.expires - now, YearSeconds))
                         \o " years)"
                ELSE "")>>

RECURSIVE sumPoints(_)
\* the score after the increments that applied
sumPoints(incs) ==
    IF incs = <<>> THEN 0
    ELSE (IF Head(incs).applies THEN Head(incs).points ELSE 0) + sumPoints(Tail(incs))

RECURSIVE pushedReasons(_)
\* the reasons after the increments that applied
pushedReasons(incs) ==
    IF incs = <<>> THEN <<>>
    ELSE (IF Head(incs).applies THEN <<Head(incs).reason>> ELSE <<>>)
             \o pushedReasons(Tail(incs))

\* riskLevelOf with > for >=
riskLevelOfMutStrict(score) ==
    IF score > 8 THEN "critical"
    ELSE IF score > 6 THEN "high"
    ELSE IF score > 3 THEN "medium"
    ELSE "low"

\* the thresholds of calculateRisk
riskLevelOf(score) ==
    IF score >= 8 THEN "critical"
    ELSE IF score >= 6 THEN "high"
    ELSE IF score >= 3 THEN "medium"
    ELSE "low"

\* CookieAnalyzer.calculateRisk
calculateRisk(c, vendorInfo, now) ==
    LET incs == riskIncrements(c, vendorInfo, now)
    IN  [riskLevel |-> riskLevelOf(sumPoints(incs)),
         riskReasons |-> pushedReasons(incs),
         score |-> sumPoints(incs)]

\* syncingPatterns and syncingDomains of detectCookieSyncing
syncingPatterns ==
    {"sync", "match", "pixel", "uuid", "tuuid", "usync", "cm", "visitor_id",
     "id_sync", "user_sync", "match_id", "sync_token"}

syncingDomains ==
    {"demdex", "everesttech", "adsrvr", "mathtag", "rlcdn", "crwdcntrl",
     "bluekai", "exelator"}

\* CookieAnalyzer.detectCookieSyncing
detectCookieSyncing(c) ==
    \/ \E pattern \in syncingPatterns : includes(toLowerCase(c.name), pattern)
    \/ \E pattern \in syncingDomains : includes(toLowerCase(c.domain), pattern)

\* unnecessaryPatterns and excessiveVendorPatterns of detectUnnecessary
unnecessaryPatterns == {"_gcl_aw", "_gcl_dc", "_gcl_gb", "_gcl_gf", "_gcl_ha"}

excessiveVendorPatterns == {"__utm"}

\* CookieAnalyzer.detectUnnecessary
detectUnnecessary(c, vendorInfo) ==
    \E pattern \in unnecessaryPatterns \cup excessiveVendorPatterns :
        includes(toLowerCase(c.name), pattern)

\* thirdPartyOf without the cookie's own flag
thirdPartyOfMutVendorOnly(vendorInfo, c) == vendorInfo.isThirdParty

\* const isActuallyThirdParty = vendorInfo.isThirdParty || cookie.isThirdParty
thirdPartyOf(vendorInfo, c) == vendorInfo.isThirdParty \/ c.isThirdParty

\* CookieAnalyzer.analyzeCookie
analyzeCookie(c, now) ==
    LET vendorInfo == detectActualVendor(c)
    IN  CookieAnalysis(c, vendorInfo.vendor, thirdPartyOf(vendorInfo, c),
                       calculateRisk(c, vendorInfo, now),
                       vendorInfo.purpose, vendorInfo.category,
                       detectCookieSyncing(c), detectUnnecessary(c, vendorInfo), now)

---------------------------------------------------------------------------
(* SpecAnalyze: analyzeCookie called on one cookie.                        *)

\* Date.now() / 1000 at the time of the analysis
ScanTime == 1762387200

\* the names of the cookies analyzed
CookieNames ==
    {"_ga", "_GA", "_gat_gtag", "_fbp", "session", "test_cookie", "__hssc",
     "anid", "tuuid", "cart", "cart_ab", "fs-consent", "unknown", "language"}

\* the domains of the cookies analyzed
CookieDomains ==
    {"example.com", "EXAMPLE.COM", ".google.com", "facebook.com", "clarity.ms",
     "www.africa.com", "cdn.cloudflare.com", "tracker.net"}

\* the name and domain of the cookies analyzed: every name on the site's own
\* domain, a name no pattern matches on every domain, and tracker names on
\* tracker domains
NamesAndDomains ==
    {<<n, "example.com">> : n \in CookieNames}
    \cup {<<"unknown", d>> : d \in CookieDomains}
    \cup {<<"_fbp", "facebook.com">>, <<"_GA", "EXAMPLE.COM">>,
          <<"cart", "tracker.net">>, <<"session", ".google.com">>}

\* the cookies analyzed: every flag either way, SameSite Lax, None and
\* absent, no expiry, a session cookie (-1), and expiries 365 days ahead,
\* one second more, and two years ahead
Cookies ==
    {Cookie(nd[1], nd[2], tp, sec, ho, ss, ex) :
        nd \in NamesAndDomains,
        tp \in BOOLEAN, sec \in BOOLEAN, ho \in BOOLEAN,
        ss \in {"Lax", "None", ""},
        ex \in {0, -1, ScanTime + YearSeconds, ScanTime + YearSeconds + 1,
                ScanTime + 2 * YearSeconds}}

\* new CookieAnalyzer(), and the cookie analyzeCookie will be called on
InitAnalyze ==
    /\ Construct(Root)
    /\ pc = "analyze"
    /\ browser = "null"
    /\ pages = <<>>
    /\ errors = <<>>
    /\ config = [maxDepth |-> 0, maxPages |-> 0]
    /\ fetched = NoResponse
    /\ openPages = 0
    /\ extraction = "none"
    /\ launches = 0
    /\ ConsentIdle
    /\ ScanIdle
    /\ cookie \in Cookies
    /\ analysis = NoAnalysis

\* analyzer.analyzeCookie(cookie)
AnalyzeCookie(now) ==
    /\ pc = "analyze"
    /\ analysis = NoAnalysis
    /\ analysis' = analyzeCookie(cookie, now)
    /\ UNCHANGED cookie
    /\ UNCHANGED <<queueVars, crawlVars, consentVars, moreVars>>

NextAnalyze == \E now \in {ScanTime} : AnalyzeCookie(now)

SpecAnalyze == InitAnalyze /\ [][NextAnalyze]_vars

---------------------------------------------------------------------------
(* SpecFilter: enqueue called once on a URL spelling, on a new UrlQueue or *)
(* after one markVisited.                                                  *)

\* 'https://example.com/path/to/deep/page'
DeepPage == U(BaseHost, <<"path", "to", "deep", "page">>, 0, <<>>, "")

\* the pathnames of the spellings, without their trailing slashes
FilterPaths ==
    {<<>>, <<"a">>, <<"page">>, <<"api">>, <<"wp-json", "endpoint">>,
     <<"image.jpg">>, <<"image.jpg", "a">>, <<"STYLE.CSS">>, <<"style.css">>,
     <<"script.js">>, <<"doc.pdf">>, <<"font.woff2">>, DeepPage.path}

\* the query strings of the spellings
FilterQueries ==
    {<<>>, <<"p">>, <<"replytocom">>, <<"a", "replytocom">>, <<"replytocom", "a">>}

\* the spellings passed to enqueue
FilterUrls ==
    {U(h, p, s, q, f) : h \in {BaseHost, "different.com"}, p \in FilterPaths,
                        s \in {0, 1, 2}, q \in FilterQueries, f \in {"", "section"}}
    \cup {InvalidUrl}

\* the URLs marked visited before the call
FilterVisits == {DeepPage, U(BaseHost, <<"a">>, 1, <<>>, "section")}

\* new UrlQueue('https://example.com')
InitFilter ==
    /\ Construct(Root)
    /\ pc = "filter"
    /\ browser = "null"
    /\ pages = <<>>
    /\ errors = <<>>
    /\ config = [maxDepth |-> 0, maxPages |-> 0]
    /\ fetched = NoResponse
    /\ openPages = 0
    /\ extraction = "none"
    /\ launches = 0
    /\ ConsentIdle
    /\ AnalyzerIdle
    /\ ScanIdle

\* queue.markVisited(url) on the new queue
FilterMarkVisited(url) ==
    /\ pc = "filter"
    /\ ret.op = "constructor"
    /\ visited' = markVisited(visited, url)
    /\ ret' = Result("markVisited", url, TRUE, NoItem)
    /\ UNCHANGED <<queue, baseDomain, accepted, taken>>
    /\ UNCHANGED crawlVars
    /\ UNCHANGED scanVars

\* queue.enqueue({ url, depth: 1 })
FilterEnqueue(url) ==
    LET r == enqueue(queue, visited, baseDomain, Item(url, 1, NoUrl))
    IN  /\ pc = "filter"
        /\ ret.op # "enqueue"
        /\ queue' = r.queue
        /\ accepted' = IF r.ok THEN Append(accepted, r.queue[Len(r.queue)]) ELSE accepted
        /\ ret' = Result("enqueue", url, r.ok, NoItem)
        /\ UNCHANGED <<visited, baseDomain, taken>>
        /\ UNCHANGED crawlVars
        /\ UNCHANGED scanVars

NextFilter ==
    \/ \E u \in FilterVisits : FilterMarkVisited(u)
    \/ \E u \in FilterUrls : FilterEnqueue(u)

SpecFilter == InitFilter /\ [][NextFilter]_vars

---------------------------------------------------------------------------
(* SpecBatch: analyzeCookies called on one batch of cookies.               *)

\* the count above which the cookies of a vendor are excessive
ExcessiveLimit == 5

ExcessiveReason == "Excessive cookies from vendor"

\* vendorCounts.get(vendor) after the first loop of detectExcessiveCookies
vendorCount(list, vendor) ==
    Cardinality({i \in 1..Len(list) : list[i].actualVendor = vendor})

\* flagExcessive with >= for >
flagExcessiveMutAtLimit(a, count) ==
    IF count >= ExcessiveLimit /\ a.category # "necessary"
    THEN [a EXCEPT !.isUnnecessary = TRUE,
                   !.riskReasons = IF ExcessiveReason \in Range(@) THEN @
                                   ELSE Append(@, ExcessiveReason)]
    ELSE a

\* flagExcessive without the test of the category
flagExcessiveMutNecessary(a, count) ==
    IF count > ExcessiveLimit
    THEN [a EXCEPT !.isUnnecessary = TRUE,
                   !.riskReasons = IF ExcessiveReason \in Range(@) THEN @
                                   ELSE Append(@, ExcessiveReason)]
    ELSE a

\* the body of the second loop of detectExcessiveCookies
flagExcessive(a, count) ==
    IF count > ExcessiveLimit /\ a.category # "necessary"
    THEN [a EXCEPT !.isUnnecessary = TRUE,
                   !.riskReasons = IF ExcessiveReason \in Range(@) THEN @
                                   ELSE Append(@, ExcessiveReason)]
    ELSE a

\* CookieAnalyzer.detectExcessiveCookies, as the array it leaves
detectExcessiveCookies(list) ==
    [i \in 1..Len(list) |-> flagExcessive(list[i], vendorCount(list, list[i].actualVendor))]

\* CookieAnalyzer.analyzeCookies
analyzeCookies(cookies, now) ==
    detectExcessiveCookies([i \in 1..Len(cookies) |-> analyzeCookie(cookies[i], now)])

\* createCookie({ name, domain, isThirdParty }) of the tests
TestCookie(name, domain, isThirdParty) ==
    Cookie(name, domain, isThirdParty, FALSE, FALSE, "Lax", 0)

\* n cookies of Google Analytics
AnalyticsCookies(n) ==
    SubSeq(<<"_ga_0", "_ga_1", "_ga_2", "_ga_3", "_ga_4", "_ga_5", "_ga_6">>, 1, n)

\* the groups a batch is made of: cookies of Google Analytics, consent
\* cookies of CookieYes (necessary), cookies of Shopify of which some are
\* necessary, and legacy cookies of Google Analytics (unnecessary each)
AnalyticsGroups ==
    {[i \in 1..n |-> TestCookie(AnalyticsCookies(n)[i], "google-analytics.com", TRUE)]
        : n \in {0, 5, 6, 7}}

ConsentGroups ==
    {[i \in 1..n |-> TestCookie("cookieyes_consent_" \o ToString(i), "example.com", TRUE)]
        : n \in {0, 7}}

ShopGroups ==
    {<<>>,
     [i \in 1..6 |-> TestCookie(IF i <= 3 THEN "_shopify_y" ELSE "secure_customer_sig",
                                "shop" \o ToString(i) \o ".example.com", FALSE)],
     [i \in 1..5 |-> TestCookie("_shopify_s", "shop" \o ToString(i) \o ".example.com",
                                FALSE)]}

LegacyGroups ==
    {<<>>,
     [i \in 1..6 |-> TestCookie(<<"__utma", "__utmb", "__utmc", "__utmt", "__utmz",
                                  "__utma_old">>[i], "example.com", FALSE)]}

\* the batches analyzeCookies is called on, in two orders
Batches ==
    UNION {{a \o c \o s \o l, Reverse(a \o c \o s \o l)} :
              a \in AnalyticsGroups, c \in ConsentGroups,
              s \in ShopGroups, l \in LegacyGroups}

\* new CookieAnalyzer(), and the batch analyzeCookies will be called on
InitBatch ==
    /\ Construct(Root)
    /\ pc = "batch"
    /\ browser = "null"
    /\ pages = <<>>
    /\ errors = <<>>
    /\ config = [maxDepth |-> 0, maxPages |-> 0]
    /\ fetched = NoResponse
    /\ openPages = 0
    /\ extraction = "none"
    /\ launches = 0
    /\ ConsentIdle
    /\ AnalyzerIdle
    /\ batch \in Batches
    /\ analyses = NotReturned
    /\ scanned = 0
    /\ scanResults = <<>>
    /\ aggregated = NotReturned
    /\ thisBrowser = 0
    /\ launched = <<>>
    /\ calls = <<>>

\* analyzer.analyzeCookies(batch)
AnalyzeCookies(now) ==
    /\ pc = "batch"
    /\ ~analyses.returned
    /\ analyses' = Returned(analyzeCookies(batch, now))
    /\ UNCHANGED batch
    /\ UNCHANGED <<queueVars, crawlVars, consentVars, analyzerVars>>
    /\ UNCHANGED <<aggregateVars, overlapVars>>

NextBatch == \E now \in {ScanTime} : AnalyzeCookies(now)

SpecBatch == InitBatch /\ [][NextBatch]_vars

---------------------------------------------------------------------------
(* CookieScanner.scanPages (the scanner of src/scanner/cookieScanner.ts):  *)
(* the pages are scanned one after the other, a page whose scan throws is  *)
(* skipped, and the results of the others are aggregated.                  *)

\* most pages one scanPages() call is given
MaxScanned == 3

\* Cookie of types.ts as scanPage fills it, without the fields aggregation
\* never reads (value, path, expires, httpOnly, secure, sameSite)
ScannedCookie(name, domain, isThirdParty, foundOnUrl) ==
    [name |-> name, domain |-> domain, isThirdParty |-> isThirdParty,
     foundOnUrl |-> foundOnUrl]

\* Script of types.ts without content and category
Script(url, type, isThirdParty, foundOnUrl) ==
    [url |-> url, type |-> type, isThirdParty |-> isThirdParty,
     foundOnUrl |-> foundOnUrl]

\* Request of types.ts
Request(url, type, isThirdParty, foundOnUrl) ==
    [url |-> url, type |-> type, isThirdParty |-> isThirdParty,
     foundOnUrl |-> foundOnUrl]

\* ScanResult of types.ts without the timestamp
ScanResult(url, cookies, scripts, requests) ==
    [url |-> url, cookies |-> cookies, scripts |-> scripts, requests |-> requests]

\* the script scanPage pushes for an inline <script> of the page: its url is
\* the URL of the page
InlineScript(url) == Script(url, "inline", FALSE, url)

\* the script scanPage pushes for a <script src> of the page
ExternalScript(src, isThirdParty, url) == Script(src, "external", isThirdParty, url)

HomeUrl == "https://shop.com/"
AboutUrl == "https://shop.com/about"

\* what scanPage returns for the pages of the site: the cookies of the
\* browser context and the scripts of the document
PageResults ==
    {ScanResult(HomeUrl,
                <<ScannedCookie("session", "id-service.com", TRUE, HomeUrl),
                  ScannedCookie("_ga", "shop.com", FALSE, HomeUrl)>>,
                <<ExternalScript("https://cdn.net/a.js", TRUE, HomeUrl),
                  InlineScript(HomeUrl)>>,
                <<Request(HomeUrl, "document", FALSE, HomeUrl),
                  Request("https://cdn.net/a.js", "script", TRUE, HomeUrl)>>),
     ScanResult(AboutUrl,
                <<ScannedCookie("_ga", "shop.com", FALSE, AboutUrl),
                  ScannedCookie("session-id", "service.com", TRUE, AboutUrl)>>,
                <<InlineScript(AboutUrl),
                  ExternalScript("https://cdn.net/a.js", TRUE, AboutUrl),
                  InlineScript(AboutUrl)>>,
                <<Request(AboutUrl, "document", FALSE, AboutUrl)>>),
     ScanResult(AboutUrl,
                <<ScannedCookie("session-id", "service.com", TRUE, AboutUrl)>>,
                <<>>,
                <<Request(AboutUrl, "document", FALSE, AboutUrl)>>),
     ScanResult(HomeUrl,
                <<ScannedCookie("_ga", "tracker.net", TRUE, HomeUrl)>>,
                <<ExternalScript("https://shop.com/app.js", FALSE, HomeUrl)>>,
                <<>>),
     ScanResult(HomeUrl, <<>>, <<>>, <<>>)}

\* lists[1] followed by lists[2] ... followed by lists[n]
RECURSIVE concat(_, _)
concat(lists, n) ==
    IF n = 0 THEN <<>> ELSE concat(lists, n - 1) \o lists[n]

\* the values of a Map that was filled, in the order of the items, with each
\* item whose key the Map did not have yet
RECURSIVE seenValues(_, _, _)
seenValues(items, keys, n) ==
    IF n = 0 THEN <<>>
    ELSE IF \E j \in 1..(n - 1) : keys[j] = keys[n]
         THEN seenValues(items, keys, n - 1)
         ELSE Append(seenValues(items, keys, n - 1), items[n])

\* `${cookie.name}-${cookie.domain}`
cookieKey(c) == c.name \o "-" \o c.domain

deduplicateCookies(cookies) ==
    seenValues(cookies, [i \in 1..Len(cookies) |-> cookieKey(cookies[i])], Len(cookies))

deduplicateScripts(scripts) ==
    seenValues(scripts, [i \in 1..Len(scripts) |-> scripts[i].url], Len(scripts))

allCookies(results) ==
    concat([i \in 1..Len(results) |-> results[i].cookies], Len(results))

allScripts(results) ==
    concat([i \in 1..Len(results) |-> results[i].scripts], Len(results))

allRequests(results) ==
    concat([i \in 1..Len(results) |-> results[i].requests], Len(results))

aggregateResults(results) ==
    LET uniqueCookies == deduplicateCookies(allCookies(results))
        uniqueScripts == deduplicateScripts(allScripts(results))
    IN  [totalCookies |-> Len(allCookies(results)),
         totalScripts |-> Len(allScripts(results)),
         totalRequests |-> Len(allRequests(results)),
         uniqueCookies |-> uniqueCookies,
         uniqueScripts |-> uniqueScripts,
         thirdPartyCookies |-> SelectSeq(uniqueCookies, LAMBDA c : c.isThirdParty),
         thirdPartyScripts |-> SelectSeq(uniqueScripts, LAMBDA s : s.isThirdParty),
         scanResults |-> results]

\* new CookieScanner(), and scanPages() entered: no page scanned yet
InitAggregate ==
    /\ Construct(Root)
    /\ pc = "scan"
    /\ browser = "null"
    /\ pages = <<>>
    /\ errors = <<>>
    /\ config = [maxDepth |-> 0, maxPages |-> 0]
    /\ fetched = NoResponse
    /\ openPages = 0
    /\ extraction = "none"
    /\ launches = 0
    /\ ConsentIdle
    /\ AnalyzerIdle
    /\ ScanIdle

\* one turn of the loop of scanPages: scanPage returned a result
ScanPage(scanResult) ==
    /\ pc = "scan"
    /\ ~aggregated.returned
    /\ scanned < MaxScanned
    /\ scanned' = scanned + 1
    /\ scanResults' = Append(scanResults, scanResult)
    /\ UNCHANGED aggregated
    /\ UNCHANGED <<queueVars, crawlVars, consentVars, analyzerVars>>
    /\ UNCHANGED <<batchVars, overlapVars>>

\* one turn of the loop of scanPages: scanPage threw, the page is skipped
ScanPageFails ==
    /\ pc = "scan"
    /\ ~aggregated.returned
    /\ scanned < MaxScanned
    /\ scanned' = scanned + 1
    /\ UNCHANGED <<scanResults, aggregated>>
    /\ UNCHANGED <<queueVars, crawlVars, consentVars, analyzerVars>>
    /\ UNCHANGED <<batchVars, overlapVars>>

\* the loop of scanPages is over: return this.aggregateResults(scanResults)
AggregateResults ==
    /\ pc = "scan"
    /\ ~aggregated.returned
    /\ aggregated' = Returned(aggregateResults(scanResults))
    /\ UNCHANGED <<scanned, scanResults>>
    /\ UNCHANGED <<queueVars, crawlVars, consentVars, analyzerVars>>
    /\ UNCHANGED <<batchVars, overlapVars>>

NextAggregate ==
    \/ \E scanResult \in PageResults : ScanPage(scanResult)
    \/ ScanPageFails
    \/ AggregateResults

SpecAggregate == InitAggregate /\ [][NextAggregate]_vars

---------------------------------------------------------------------------
(* Two ConsentTester.testConsent() calls on one instance. A call runs      *)
(* until its next await; the awaits of the two calls settle in any order.  *)
(* The calls share the field this.browser.                                 *)

\* the testConsent() calls made on the instance
Callers == 1..2

\* the phases of one call: before, accept, reject
PhaseCount == 3

\* a call: where it is, the phases it has completed, the browser (position
\* in `launched`) its phase runs on or its cleanup closes, how it failed, and
\* whether the other call was in flight when it was made
CallAt(at, phase, on, failed, overlapped) ==
    [at |-> at, phase |-> phase, on |-> on, failed |-> failed,
     overlapped |-> overlapped]

NotCalled == CallAt("idle", 0, 0, "", FALSE)

InFlight(call) == call.at \notin {"idle", "settled"}

\* a call that left its try block: the finally block is next
toCleanup(call, failed) == [call EXCEPT !.at = "cleanup", !.on = 0, !.failed = failed]

\* a new ConsentTester: browser is null, no call was made
InitOverlap ==
    /\ Construct(Root)
    /\ pc = "overlap"
    /\ browser = "null"
    /\ pages = <<>>
    /\ errors = <<>>
    /\ config = [maxDepth |-> 0, maxPages |-> 0]
    /\ fetched = NoResponse
    /\ openPages = 0
    /\ extraction = "none"
    /\ launches = 0
    /\ ConsentIdle
    /\ AnalyzerIdle
    /\ batch = <<>>
    /\ analyses = NotReturned
    /\ scanned = 0
    /\ scanResults = <<>>
    /\ aggregated = NotReturned
    /\ thisBrowser = 0
    /\ launched = <<>>
    /\ calls = [c \in Callers |-> NotCalled]

OverlapFrame ==
    /\ UNCHANGED <<queueVars, crawlVars, consentVars, analyzerVars>>
    /\ UNCHANGED <<batchVars, aggregateVars>>

\* testConsent(url) is called: it runs to await this.init(), which runs to
\* await chromium.launch()
StartCall(c) ==
    /\ pc = "overlap"
    /\ calls[c].at = "idle"
    /\ calls' = [calls EXCEPT ![c] =
                    CallAt("launching", 0, 0, "", \E d \in Callers : InFlight(calls[d]))]
    /\ UNCHANGED <<thisBrowser, launched>>
    /\ OverlapFrame

\* chromium.launch() resolved: init stores the browser in this.browser
LaunchResolves(c) ==
    /\ pc = "overlap"
    /\ calls[c].at = "launching"
    /\ launched' = Append(launched, "open")
    /\ thisBrowser' = Len(launched) + 1
    /\ calls' = [calls EXCEPT ![c].at = "ready"]
    /\ OverlapFrame

\* chromium.launch() rejected: init throws, this.browser is not written
LaunchRejects(c) ==
    /\ pc = "overlap"
    /\ calls[c].at = "launching"
    /\ calls' = [calls EXCEPT ![c] = toCleanup(@, "launch failed")]
    /\ UNCHANGED <<thisBrowser, launched>>
    /\ OverlapFrame

\* captureState / captureStateWithAction is entered: it throws if
\* this.browser is null, and this.browser.newContext() rejects if that
\* browser was closed; else the phase runs on that browser
beginPhase(call, field, browsers) ==
    IF field = 0 THEN toCleanup(call, "Browser not initialized")
    ELSE IF browsers[field] = "closed" THEN toCleanup(call, "browser has been closed")
    ELSE [call EXCEPT !.at = "capturing", !.on = field]

BeginPhase(c) ==
    /\ pc = "overlap"
    /\ calls[c].at = "ready"
    /\ calls' = [calls EXCEPT ![c] = beginPhase(@, thisBrowser, launched)]
    /\ UNCHANGED <<thisBrowser, launched>>
    /\ OverlapFrame

\* the phase is over: it returned its state, or an await of it rejected
\* because the browser of its context was closed
endPhase(call, browsers) ==
    IF browsers[call.on] = "closed" THEN toCleanup(call, "browser has been closed")
    ELSE IF call.phase + 1 = PhaseCount
         THEN [toCleanup(call, "") EXCEPT !.phase = PhaseCount]
         ELSE [call EXCEPT !.at = "ready", !.on = 0, !.phase = @ + 1]

EndPhase(c) ==
    /\ pc = "overlap"
    /\ calls[c].at = "capturing"
    /\ calls' = [calls EXCEPT ![c] = endPhase(@, launched)]
    /\ UNCHANGED <<thisBrowser, launched>>
    /\ OverlapFrame

\* finally { await this.cleanup() }: cleanup returns if this.browser is
\* null, else it runs to await this.browser.close()
beginCleanup(call, field) ==
    IF field = 0 THEN [call EXCEPT !.at = "settled"]
    ELSE [call EXCEPT !.at = "closing", !.on = field]

BeginCleanup(c) ==
    /\ pc = "overlap"
    /\ calls[c].at = "cleanup"
    /\ calls' = [calls EXCEPT ![c] = beginCleanup(@, thisBrowser)]
    /\ UNCHANGED <<thisBrowser, launched>>
    /\ OverlapFrame

\* browser.close() resolved: cleanup sets this.browser = null and the call
\* settles
EndCleanup(c) ==
    /\ pc = "overlap"
    /\ calls[c].at = "closing"
    /\ launched' = [launched EXCEPT ![calls[c].on] = "closed"]
    /\ thisBrowser' = 0
    /\ calls' = [calls EXCEPT ![c].at = "settled"]
    /\ OverlapFrame

NextOverlap ==
    \E c \in Callers :
        \/ StartCall(c)
        \/ LaunchResolves(c)
        \/ LaunchRejects(c)
        \/ BeginPhase(c)
        \/ EndPhase(c)
        \/ BeginCleanup(c)
        \/ EndCleanup(c)

SpecOverlap == InitOverlap /\ [][NextOverlap]_vars

---------------------------------------------------------------------------
(* Claims about UrlQueue, checked under Spec.                              *)

\* the argument of the call that led to the next state, canonicalized
CalledUrl == normalizeUrl(ret'.url)

\* the number of parameters of query q named k
CountKey(q, k) == Cardinality({i \in 1..Len(q) : q[i] = k})

\* u spells the page of the stored URL v: the same host, path and query
\* parameters in any order, with or without one trailing slash, with or
\* without a fragment
IsSpellingOf(u, v) ==
    /\ u.valid /\ v.valid
    /\ u.host = v.host
    /\ u.path = v.path
    /\ u.slashes <= 1 /\ v.slashes = 0
    /\ Len(u.query) = Len(v.query)
    /\ \A i \in 1..Len(u.query) : CountKey(u.query, u.query[i]) = CountKey(v.query, u.query[i])

\* C1: enqueue returns false and leaves the queue and the visited set as
\* they were whenever the canonical form of the URL passed is in the
\* visited set, whatever the queue holds; this is so for every spelling
\* (trailing slash, fragment, order of the query parameters) of a visited
\* URL.
C1_VisitedUrlRejected ==
    [][(/\ ret'.op = "enqueue"
        /\ \/ CalledUrl \in visited
           \/ \E v \in visited : IsSpellingOf(ret'.url, v))
           => (~ret'.ok /\ queue' = queue /\ visited' = visited)]_vars

\* a visited URL was refused in another spelling than the stored one while
\* two copies of it wait in the queue
C1_Witness ==
    /\ ret.op = "enqueue"
    /\ ~ret.ok
    /\ normalizeUrl(ret.url) \in visited
    /\ ret.url \notin visited
    /\ \E i, j \in 1..Len(queue) :
          i < j /\ queue[i].url = normalizeUrl(ret.url) /\ queue[j].url = queue[i].url

\* C2: enqueue returns false and pushes nothing for a URL whose hostname is
\* not exactly the start URL's hostname, a subdomain included; every item
\* the queue ever held has the base hostname.
C2_ForeignHostRejected ==
    /\ [](\A i \in 1..Len(accepted) : hostname(accepted[i].url) = baseDomain)
    /\ [][(ret'.op = "enqueue" /\ ret'.url.valid /\ hostname(ret'.url) # baseDomain)
              => (~ret'.ok /\ queue' = queue)]_vars

\* an unvisited page of a subdomain was refused
C2_Witness ==
    /\ ret.op = "enqueue"
    /\ ~ret.ok
    /\ hostname(ret.url) \in SubdomainsOf(baseDomain)
    /\ normalizeUrl(ret.url) \notin visited
    /\ ~isResourceUrl(normalizeUrl(ret.url))

\* C3: dequeue hands out the items in the order enqueue pushed them, the
\* start URL at depth 0 first, each with the depth it was enqueued with,
\* and on an empty queue it returns undefined and changes nothing.
C3_Fifo ==
    /\ [](accepted = taken \o queue)
    /\ [](accepted # <<>> => accepted[1] = Item(normalizeUrl(Root), 0, NoUrl))
    /\ [][(ret'.op = "enqueue" /\ ret'.ok)
              => \E d \in ClientDepths :
                    /\ Enqueue(Item(ret'.url, d, NoUrl))
                    /\ accepted' = Append(accepted, Item(CalledUrl, d, NoUrl))]_vars
    /\ [][ret'.op = "dequeue"
              => IF queue = <<>>
                 THEN /\ ret'.item = NoItem
                      /\ ~ret'.ok
                      /\ UNCHANGED <<queue, visited, baseDomain, accepted, taken>>
                 ELSE /\ ret'.item = Head(queue)
                      /\ queue' = Tail(queue)
                      /\ taken' = Append(taken, Head(queue))]_vars

\* three different items left the queue, the start URL and two pushed at
\* depth 3, and a further dequeue found the queue empty
C3_Witness ==
    /\ Len(taken) = 3
    /\ taken[1].depth = 0
    /\ taken[2].depth = 3
    /\ taken[3].depth = 3
    /\ taken[2].url # taken[3].url
    /\ ret.op = "dequeue"
    /\ ~ret.ok

\* C4: enqueue does not look at the queue: a same-host page URL whose
\* canonical form is not visited is pushed by every call, also when the
\* same canonical URL already waits in the queue.
C4_DuplicatesAccepted ==
    [][(/\ ret'.op = "enqueue"
        /\ CalledUrl.valid
        /\ hostname(CalledUrl) = baseDomain
        /\ ~isResourceUrl(CalledUrl)
        /\ CalledUrl \notin visited)
           => (/\ ret'.ok
               /\ Len(queue') = Len(queue) + 1
               /\ SubSeq(queue', 1, Len(queue)) = queue
               /\ queue'[Len(queue')].url = CalledUrl)]_vars

\* a URL was accepted while its canonical form already waited in the queue
C4_Witness ==
    /\ ret.op = "enqueue"
    /\ ret.ok
    /\ Len(queue) >= 2
    /\ \E i \in 1..(Len(queue) - 1) : queue[i].url = queue[Len(queue)].url

---------------------------------------------------------------------------
(* Claims about the visited set, checked under SpecAll.                    *)

\* the item the step took from the queue
TakenItem == taken'[Len(taken')]

\* a turn of the while loop of crawl() that called crawlPage
CrawlPageStep == Len(taken') = Len(taken) + 1 /\ fetched' # NoResponse

\* C5: the visited set only grows: no step of a UrlQueue client or of the
\* crawler removes a URL from it, enqueue and dequeue leave it as it is, and
\* markVisited on a URL whose canonical form is present leaves the set and
\* visitedCount as they are.
C5_VisitedOnlyGrows ==
    [][/\ visited \subseteq visited'
       /\ (pc = "client" /\ ret'.op \in {"enqueue", "dequeue"}) => visited' = visited
       /\ (pc = "client" /\ ret'.op = "markVisited" /\ CalledUrl \in visited)
              => (visited' = visited /\ visitedCount' = visitedCount)
       /\ (CrawlPageStep /\ normalizeUrl(TakenItem.url) \in visited)
              => (visited' = visited /\ visitedCount' = visitedCount)]_vars

\* the crawler marked a URL visited a second time: three pages were
\* recorded, two of them for one URL, and the set holds two URLs
C5_Witness ==
    /\ Len(pages) = 3
    /\ pages[2].url = pages[3].url
    /\ visitedCount = 2
    /\ visited = {pages[1].url, pages[2].url}

---------------------------------------------------------------------------
(* Claims about Crawler, checked under SpecCrawl.                          *)

\* C6: pages are fetched breadth first: the depths of the items taken from
\* the queue never decrease, and no item waiting in the queue is shallower
\* than the item taken last.
C6_BreadthFirst ==
    /\ \A i, j \in 1..Len(taken) : i < j => taken[i].depth <= taken[j].depth
    /\ taken # <<>>
          => \A k \in 1..Len(queue) : queue[k].depth >= taken[Len(taken)].depth

\* two pages of depth 1 were taken one after the other while a link found on
\* the first of them waits at depth 2
C6_Witness ==
    /\ Len(taken) = 3
    /\ taken[2].depth = 1
    /\ taken[3].depth = 1
    /\ queue # <<>>
    /\ queue[1].depth = 2
    /\ queue[1].parentUrl = taken[2].url

\* the items crawlPage was called for
FetchedItems == {i \in 1..Len(taken) : taken[i].depth <= config.maxDepth}

\* C7: nothing deeper than maxDepth is fetched or recorded: every PageInfo
\* has depth <= maxDepth, links are enqueued only from recorded pages of depth
\* < maxDepth, and an item deeper than maxDepth leaves the queue without a
\* PageInfo and without a CrawlError.
C7_DepthLimit ==
    /\ \A i \in 1..Len(pages) : pages[i].depth <= config.maxDepth
    /\ \A i \in 2..Len(accepted) :
          /\ accepted[i].depth <= config.maxDepth
          /\ \E k \in 1..Len(pages) :
                /\ pages[k].url = accepted[i].parentUrl
                /\ pages[k].depth < config.maxDepth
                /\ accepted[i].depth = pages[k].depth + 1
    /\ Len(pages) + Len(errors) = Cardinality(FetchedItems)

\* with maxDepth below 0 the start item was dropped and the crawl returned
\* nothing
C7_Witness ==
    /\ pc = "done"
    /\ Len(taken) = 1
    /\ taken[1].depth > config.maxDepth
    /\ pages = <<>>
    /\ errors = <<>>

\* what a turn of the loop that called crawlPage does when `success` tells
\* whether the page counts as fetched
Outcome(success) ==
    /\ pc' = "loop"
    /\ IF success
       THEN /\ pages' = Append(pages, PageInfo(TakenItem.url, TakenItem.depth,
                                               fetched'.status))
            /\ normalizeUrl(TakenItem.url) \in visited'
            /\ errors' = errors
       ELSE /\ Len(errors') = Len(errors) + 1
            /\ SubSeq(errors', 1, Len(errors)) = errors
            /\ errors'[Len(errors')].url = TakenItem.url
            /\ pages' = pages
            /\ visited' = visited

\* C8 as claimed: a response with a status in 200..299 gives one PageInfo and
\* marks the URL visited; anything else gives one CrawlError, no PageInfo and
\* no mark; the loop goes on.
C8_AsClaimed ==
    [][CrawlPageStep
          => Outcome(/\ fetched'.kind = "response"
                     /\ fetched'.status >= 200
                     /\ fetched'.status <= 299)]_vars

\* C8: a response with a status in 200..299 whose title is read without a
\* throw gives one PageInfo and marks the URL visited; any other status, no
\* response, or a throw anywhere in crawlPage (reading the title of a 2xx
\* page included) gives one CrawlError, no PageInfo and no mark; the loop
\* goes on.
C8_PerItemOutcome ==
    [][CrawlPageStep
          => Outcome(/\ fetched'.kind = "response"
                     /\ fetched'.status >= 200
                     /\ fetched'.status <= 299
                     /\ fetched'.titleOk)]_vars

\* after a recorded page, a page answered 200 and reading its title threw:
\* the error is recorded and the loop goes on
C8_Witness ==
    /\ pc = "loop"
    /\ Len(pages) >= 1
    /\ Len(errors) >= 1
    /\ fetched = Response("response", 200, FALSE)
    /\ errors[Len(errors)].url = taken[Len(taken)].url

\* C9: no canonical URL is recorded twice in the PageInfo list.
C9_NoPageFetchedTwice ==
    \A i, j \in 1..Len(pages) :
        i # j => normalizeUrl(pages[i].url) # normalizeUrl(pages[j].url)

\* the page limit in force
PageLimit == IF config.maxPages < MAX_PAGES THEN config.maxPages ELSE MAX_PAGES

\* C10: the crawl never records more pages than the configured maximum.
C10_PageCountBounded == Len(pages) <= PageLimit

---------------------------------------------------------------------------
(* Claims about the end of a crawl, checked under SpecCrawlFair.           *)

RECURSIVE Pow(_, _)
\* b to the power n
Pow(b, n) == IF n = 0 THEN 1 ELSE b * Pow(b, n - 1)

RECURSIVE SumPow(_, _)
\* 1 + b + ... + b^n
SumPow(b, n) == IF n = 0 THEN 1 ELSE Pow(b, n) + SumPow(b, n - 1)

\* the most anchors on one page of the site
SiteFanOut ==
    CHOOSE n \in 0..4 :
        /\ \A l \in SiteLinkLists : Len(l) <= n
        /\ \E l \in SiteLinkLists : Len(l) = n

\* the turns of the loop a crawl to depth maxDepth can take: the nodes of the
\* tree of that depth whose nodes have SiteFanOut children
TurnBound == SumPow(SiteFanOut, config.maxDepth)

\* C11: with maxDepth >= 0 the loop takes at most 1 + f + ... + f^maxDepth
\* turns on a site whose pages carry at most f links, and once the browser is
\* launched crawl() reaches an empty frontier and returns, whichever pages
\* fail and however the pages link to each other.
C11_Terminates ==
    /\ [](config.maxDepth >= 0 => Len(taken) <= TurnBound)
    /\ (config.maxDepth >= 0 /\ pc = "loop") ~> (pc = "done" /\ queue = <<>>)

\* crawl() returned after a page that failed was reached again through a
\* link and failed again
C11_Witness ==
    /\ pc = "done"
    /\ queue = <<>>
    /\ \E i, j \in 1..Len(errors) : i < j /\ errors[i].url = errors[j].url

---------------------------------------------------------------------------
(* Claims about the browser of a crawl, checked under SpecCrawl.           *)

\* C12: chromium.launch() is called at most once per crawl and exactly once
\* before the loop runs; between two turns of the loop no page is open,
\* whatever the last crawlPage call met; the browser is open while the loop
\* runs and is not open once crawl() has returned or rethrown.
C12_ResourcesReleased ==
    /\ launches <= 1
    /\ pc \in {"loop", "done", "threw"} => launches = 1
    /\ openPages = 0
    /\ pc = "loop" => browser = "open"
    /\ pc \in {"done", "threw"} => browser # "open"

\* crawl() returned after a page was recorded, a navigation threw and a page
\* answered with an error status
C12_Witness ==
    /\ pc = "done"
    /\ browser = "closed"
    /\ Len(pages) >= 1
    /\ \E i, j \in 1..Len(errors) :
          /\ errors[i].error.text = "Timeout 30000ms exceeded"
          /\ errors[j].error.text = "HTTP"

---------------------------------------------------------------------------
(* Claims about ConsentTester, checked under SpecConsent.                  *)

\* the events of one kind, in order
EventsOf(kind) == SelectSeq(events, LAMBDA e : e.ev = kind)

\* the phases of the events of one kind, in order
PhasesOf(kind) == [i \in 1..Len(EventsOf(kind)) |-> EventsOf(kind)[i].phase]

\* s is the beginning of t
IsPrefix(s, t) == Len(s) <= Len(t) /\ \A i \in 1..Len(s) : s[i] = t[i]

\* the order the claims give the phases
PhaseOrder == <<"before", "accept", "reject">>

\* C13: the contexts of a call are created for the phases before, accept,
\* reject in that order, each phase at most once; at most one context is open
\* at any time; a context is created only while no context is open, and
\* starts without cookies; a phase is entered, and the call settles, with no
\* context open; the state captured before consent holds the cookies of the
\* page load only and the state captured after reject none of the cookies
\* the accept click set.
C13_PhasesInOrder ==
    /\ [](/\ IsPrefix(PhasesOf("newContext"), PhaseOrder)
          /\ IsPrefix(PhasesOf("captured"), PhaseOrder)
          /\ Len(contexts) <= 1
          /\ tpc.at \in {"start", "settled"} => contexts = <<>>
          /\ tpc.at = "body" => Len(contexts) = 1 /\ contexts[1].phase = tpc.phase
          /\ \A i \in 1..Len(events) :
                events[i].ev = "captured" =>
                    /\ events[i].phase = "before" => events[i].state = OnLoad
                    /\ events[i].phase = "reject" => events[i].state \cap OnAccept = {})
    /\ [][Len(contexts') > Len(contexts)
             => /\ contexts = <<>>
                /\ contexts' = <<[phase |-> tpc.phase, cookies |-> {}]>>]_vars

\* the call returned after the accept click set cookies and the reject click
\* was made in a context of its own
C13_Witness ==
    /\ outcome = "result"
    /\ PhasesOf("newContext") = PhaseOrder
    /\ PhasesOf("closeContext") = PhaseOrder
    /\ OnAccept \subseteq result.afterAcceptAll
    /\ OnReject \subseteq result.afterRejectAll

\* the state and the click a phase returned, when it returned
Captured(phase) == {e \in Range(events) : e.ev = "captured" /\ e.phase = phase}

\* all three phases returned
AllCaptured == \A p \in Range(PhaseOrder) : Captured(p) # {}

\* C14: the call settles with a result exactly when all three phases have
\* returned, and the result then holds what each phase returned; it settles
\* with the error when the launch or a phase threw; once the call has
\* settled the browser it launched is closed, and so are its contexts.
C14_AllOrNothing ==
    /\ tpc.at = "settled" <=> outcome # "none"
    /\ outcome = "result" =>
          /\ AllCaptured
          /\ \A e \in Captured("before") : result.beforeConsent = e.state
          /\ \A e \in Captured("accept") : result.afterAcceptAll = e.state
          /\ \A e \in Captured("reject") : result.afterRejectAll = e.state
    /\ outcome = "error" <=> (tpc.at = "settled" /\ ~AllCaptured)
    /\ outcome # "none" =>
          /\ tbrowser # "open"
          /\ contexts = <<>>
          /\ EventsOf("launch") # <<>> =>
                /\ tbrowser = "closed"
                /\ events[Len(events)].ev = "closeBrowser"

\* the call settled with the error of the reject phase, after the before and
\* accept phases were stored in the result
C14_Witness ==
    /\ outcome = "error"
    /\ tpc.phase = "reject"
    /\ PhasesOf("captured") = <<"before", "accept">>
    /\ result.consentMechanismFound
    /\ tbrowser = "closed"

\* the selector list the source gives an action
ListOf(phase) == IF phase = "accept" THEN acceptSelectors ELSE rejectSelectors

\* the least element of a set of numbers
Min(S) == CHOOSE i \in S : \A j \in S : i <= j

\* what one findAndClickConsent call must have done on the page, when
\* `candidates` are the list positions of the selectors it may click
ClicksFirstOf(click, list, candidates) ==
    IF candidates = {}
    THEN /\ ~click.found
         /\ click.clicked = ""
         /\ click.vendor = "undefined"
         /\ click.tried = list
    ELSE /\ click.found
         /\ click.clicked = list[Min(candidates)]
         /\ click.tried = SubSeq(list, 1, Min(candidates))

\* the list positions of the selectors that resolve to an element of the page
Existing(list) == {i \in 1..Len(list) : list[i] \in site.present \ site.broken}

\* the list positions of the selectors that resolve to an element of the page
\* whose click() does not reject
Clickable(list) == {i \in Existing(list) : list[i] \notin site.unclickable}

\* C15 as claimed: the selectors are tried in list order, the first that
\* resolves to an existing element is clicked and no later one is tried or
\* clicked; if none resolves nothing is clicked and found is false.
C15_AsClaimed ==
    \A e \in Range(EventsOf("click")) :
        /\ ClicksFirstOf(e.click, ListOf(e.phase), Existing(ListOf(e.phase)))
        /\ Len(e.click.attempts) <= 1

\* C15: the selectors are tried in list order; a selector whose lookup
\* rejects or finds no element is passed over, and so is one whose click()
\* rejects; the first selector whose element exists and whose click()
\* resolves is the one clicked, no later selector is tried, and exactly one
\* click succeeds; click() was called on the existing elements tried, in
\* order; if no selector is clicked the whole list was tried and found is
\* false.
C15_FirstClickable ==
    \A e \in Range(EventsOf("click")) :
        LET list == ListOf(e.phase)
        IN  /\ ClicksFirstOf(e.click, list, Clickable(list))
            /\ e.click.attempts
                  = SelectSeq(e.click.tried,
                              LAMBDA s : s \in site.present \ site.broken)
            /\ \A i \in 1..Len(e.click.attempts) :
                  (e.click.attempts[i] = e.click.clicked)
                      <=> (e.click.found /\ i = Len(e.click.attempts))

\* the first existing button rejected its click and a later one was clicked
C15_Witness ==
    \E e \in Range(EventsOf("click")) :
        /\ e.click.found
        /\ Len(e.click.attempts) = 2
        /\ e.click.attempts[1] \in site.unclickable
        /\ e.click.clicked = e.click.attempts[2]

\* C16: until the accept phase has returned the result holds found = FALSE
\* and no vendor; from then on it holds the found flag and the vendor the
\* accept phase returned, also in the result the caller receives; no step of
\* the reject phase changes either field.
C16_VendorFromAccept ==
    /\ [](IF Captured("accept") = {}
          THEN ~result.consentMechanismFound /\ result.consentVendor = "undefined"
          ELSE \A e \in Captured("accept") :
                  /\ result.consentMechanismFound = e.click.found
                  /\ result.consentVendor = e.click.vendor)
    /\ [][tpc.phase = "reject"
             => /\ result'.consentMechanismFound = result.consentMechanismFound
                /\ result'.consentVendor = result.consentVendor]_vars

\* the call returned a result with the vendor of the accept button after the
\* reject phase clicked the button of another vendor
C16_Witness ==
    /\ outcome = "result"
    /\ result.consentMechanismFound
    /\ result.consentVendor = "OneTrust"
    /\ \E e \in Captured("reject") : e.click.found /\ e.click.vendor = "Cookiebot"

\* the selectors the selector lists give each supported platform
PlatformSelectors ==
    [OneTrust |-> {"#onetrust-accept-btn-handler", ".onetrust-close-btn-handler",
                   "#onetrust-reject-all-handler", ".onetrust-reject-all"},
     Cookiebot |-> {"#CybotCookiebotDialogBodyLevelButtonLevelOptinAllowAll",
                    "#CybotCookiebotDialogBodyButtonDecline"},
     Osano |-> {".osano-cm-accept-all", ".osano-cm-button--type_accept",
                "button[data-osano=\"accept\"]", ".osano-cm-deny-all",
                ".osano-cm-button--type_deny", "button[data-osano=\"deny\"]"},
     Termly |-> {"#accept-all-button", ".t-accept-all-button",
                 ".t-preference-button[data-action=\"accept\"]",
                 "#reject-all-button", ".t-reject-all-button",
                 ".t-preference-button[data-action=\"reject\"]"},
     TrustArc |-> {"#truste-consent-button", ".trustarc-accept-btn",
                   ".truste-button1", "#truste-consent-required",
                   ".trustarc-reject-btn", ".truste-button2"}]

\* the supported platforms
Platforms == DOMAIN PlatformSelectors

\* the selectors of no supported platform
GenericSelectors ==
    (Range(acceptSelectors) \cup Range(rejectSelectors))
        \ UNION {PlatformSelectors[v] : v \in Platforms}

\* C17: a click on a selector of a supported platform reports that platform
\* as vendor; a click on a generic selector reports none of the platforms,
\* and reports Cookie Consent only for a .cc- selector.
C17_VendorOfSelector ==
    \A e \in Range(EventsOf("click")) :
        e.click.found =>
            /\ \A v \in Platforms :
                  e.click.clicked \in PlatformSelectors[v] => e.click.vendor = v
            /\ e.click.clicked \in GenericSelectors =>
                  /\ e.click.vendor \notin Platforms
                  /\ e.click.vendor = "Cookie Consent"
                        => e.click.clicked \in {".cc-accept", ".cc-allow"}

---------------------------------------------------------------------------
(* Claims about CookieAnalyzer, checked under SpecAnalyze.                 *)

\* analyzeCookie has returned
Analyzed == analysis # NoAnalysis

\* the vendor table: the entries of the knownVendors map, in order
Table == loadKnownVendors

\* the lowercased name and domain of the cookie under analysis
LowName == toLowerCase(cookie.name)

LowDomain == toLowerCase(cookie.domain)

\* the table positions whose pattern occurs in the name or in the domain
Hits ==
    LET name == LowName
        domain == LowDomain
        table == Table
    IN  {i \in 1..Len(table) : \/ includes(name, table[i].pattern)
                               \/ includes(domain, table[i].pattern)}

\* the domain-keyword fallbacks, in order
Fallbacks ==
    <<[keywords |-> {"google", "doubleclick"},
       info |-> VendorInfo("Google", TRUE, "Analytics/Advertising", "advertising")],
      [keywords |-> {"facebook", "meta"},
       info |-> VendorInfo("Facebook/Meta", TRUE, "Social Media Tracking", "social")],
      [keywords |-> {"linkedin"},
       info |-> VendorInfo("LinkedIn", TRUE, "Social Media Tracking", "social")],
      [keywords |-> {"twitter", "twimg"},
       info |-> VendorInfo("Twitter/X", TRUE, "Social Media Tracking", "social")],
      [keywords |-> {"clarity.ms", "bing.com"},
       info |-> VendorInfo("Microsoft Clarity", TRUE, "Analytics/Session Recording",
                           "analytics")],
      [keywords |-> {"cloudflare"},
       info |-> VendorInfo("Cloudflare", TRUE, "Security/Bot protection",
                           "functional")]>>

\* the fallback positions one of whose keywords occurs in the domain
KeywordHits ==
    LET domain == LowDomain
    IN  {i \in 1..Len(Fallbacks) :
            \E k \in Fallbacks[i].keywords : includes(domain, k)}

\* the VendorInfo first-match-wins resolution gives the cookie
Resolved ==
    LET hits == Hits
        keywordHits == KeywordHits
    IN  IF hits # {} THEN Table[Min(hits)].info
        ELSE IF keywordHits # {} THEN Fallbacks[Min(keywordHits)].info
        ELSE VendorInfo(IF cookie.isThirdParty THEN LowDomain ELSE "First Party",
                        cookie.isThirdParty, "Unknown", "unknown")

\* C18: the analysis carries the vendor, purpose and category of the first
\* table entry whose pattern occurs in the lowercased name or domain, and the
\* third-party reason exactly when that entry is third-party; with no such
\* entry, those of the first domain-keyword fallback that applies; with none
\* either, the lowercased domain (captured third-party) or 'First Party'
\* (captured first-party), purpose 'Unknown', category 'unknown'.
C18_FirstMatchWins ==
    Analyzed =>
        LET resolved == Resolved
        IN  /\ analysis.cookie = cookie
            /\ analysis.actualVendor = resolved.vendor
            /\ analysis.purpose = resolved.purpose
            /\ analysis.category = resolved.category
            /\ ("Third-party tracking service" \in Range(analysis.riskReasons))
                  <=> resolved.isThirdParty

\* a cookie several table patterns occur in, the last of another vendor than
\* the first, was given the vendor of the first
C18_Witness ==
    /\ Analyzed
    /\ LET hits == Hits
       IN  /\ hits # {}
           /\ \E j \in hits :
                  /\ Min(hits) < j
                  /\ Table[j].info.vendor # Table[Min(hits)].info.vendor
                  /\ analysis.actualVendor = Table[Min(hits)].info.vendor

\* C19 as claimed: isActuallyThirdParty is (resolved third-party or captured
\* third-party); a cookie captured first-party whose name contains the
\* pattern of a third-party table entry is reported third-party; a cookie
\* captured third-party is never reported first-party.
C19_AsClaimed ==
    Analyzed =>
        LET name == LowName
            table == Table
        IN  /\ analysis.isActuallyThirdParty
                  <=> (Resolved.isThirdParty \/ cookie.isThirdParty)
            /\ cookie.isThirdParty => analysis.isActuallyThirdParty
            /\ (/\ ~cookie.isThirdParty
                /\ \E i \in 1..Len(table) : /\ table[i].info.isThirdParty
                                            /\ includes(name, table[i].pattern))
                  => analysis.isActuallyThirdParty

\* C19: isActuallyThirdParty is (resolved third-party or captured
\* third-party); a cookie captured first-party that the table resolves by a
\* third-party entry whose pattern is in its name is reported third-party; a
\* cookie captured third-party is never reported first-party.
C19_ThirdPartyCorrection ==
    Analyzed =>
        LET hits == Hits
        IN  /\ analysis.isActuallyThirdParty
                  <=> (Resolved.isThirdParty \/ cookie.isThirdParty)
            /\ cookie.isThirdParty => analysis.isActuallyThirdParty
            /\ (/\ ~cookie.isThirdParty
                /\ hits # {}
                /\ Table[Min(hits)].info.isThirdParty
                /\ includes(LowName, Table[Min(hits)].pattern))
                  => analysis.isActuallyThirdParty

\* a cookie named _ga captured as first-party was reported third-party
C19_Witness ==
    /\ Analyzed
    /\ cookie.name = "_ga"
    /\ ~cookie.isThirdParty
    /\ analysis.isActuallyThirdParty
    /\ analysis.actualVendor = "Google Analytics"

\* 1 if b, else 0
Ind(b) == IF b THEN 1 ELSE 0

\* the points the category adds
CategoryPoints ==
    CASE analysis.category = "advertising" -> 3
      [] analysis.category = "analytics" -> 2
      [] analysis.category = "social" -> 2
      [] OTHER -> 0

\* SameSite is None or unset
CrossSite == cookie.sameSite \in {"None", ""}

\* the expiry is more than 365 days after the time of the analysis
LongLived == cookie.expires # 0 /\ cookie.expires - analysis.now > 365 * 86400

\* C20: the score is 3*[third-party] + (3 advertising, 2 analytics, 2 social)
\* + 2*[third-party and not Secure] + 1*[third-party and not HttpOnly]
\* + 2*[SameSite None or unset] + 1*[expiry more than 365 days ahead], with
\* third-party the flag of the resolved vendor; it lies in 0..12; riskLevel is
\* critical from 8, high from 6, medium from 3, else low; riskReasons holds
\* one reason per increment, all different; a cookie without SameSite gets
\* the risk of the same cookie with SameSite=None.
C20_RiskScore ==
    Analyzed =>
        LET tp == Resolved.isThirdParty
        IN  /\ analysis.score = 3 * Ind(tp) + CategoryPoints
                                  + 2 * Ind(tp /\ ~cookie.secure)
                                  + Ind(tp /\ ~cookie.httpOnly)
                                  + 2 * Ind(CrossSite) + Ind(LongLived)
            /\ analysis.score \in 0..12
            /\ analysis.riskLevel =
                  (CASE analysis.score >= 8 -> "critical"
                     [] analysis.score \in 6..7 -> "high"
                     [] analysis.score \in 3..5 -> "medium"
                     [] OTHER -> "low")
            /\ Len(analysis.riskReasons) = Ind(tp) + Ind(CategoryPoints > 0)
                                             + Ind(tp /\ ~cookie.secure)
                                             + Ind(tp /\ ~cookie.httpOnly)
                                             + Ind(CrossSite) + Ind(LongLived)
            /\ Cardinality(Range(analysis.riskReasons)) = Len(analysis.riskReasons)
            /\ cookie.sameSite = "" =>
                  LET other == analyzeCookie([cookie EXCEPT !.sameSite = "None"],
                                             analysis.now)
                  IN  /\ analysis.score = other.score
                      /\ analysis.riskLevel = other.riskLevel
                      /\ analysis.riskReasons = other.riskReasons

\* a cookie without SameSite reached the score 12 with six reasons
C20_Witness ==
    /\ Analyzed
    /\ cookie.sameSite = ""
    /\ analysis.score = 12
    /\ analysis.riskLevel = "critical"
    /\ Len(analysis.riskReasons) = 6

---------------------------------------------------------------------------
(* Claims about the resource filter of UrlQueue, checked under SpecFilter. *)

\* String.prototype.endsWith
endsWith(s, p) == Len(s) >= Len(p) /\ SubSeq(s, Len(s) - Len(p) + 1, Len(s)) = p

\* the strings of a sequence, each preceded by sep
RECURSIVE Joined(_, _, _)

Joined(seq, i, sep) ==
    IF i > Len(seq) THEN "" ELSE sep \o seq[i] \o Joined(seq, i + 1, sep)

\* `n` times the string s
RECURSIVE Repeated(_, _)

Repeated(s, n) == IF n = 0 THEN "" ELSE s \o Repeated(s, n - 1)

\* the search of a URL: '?k=1&k=1'
Search(q) ==
    IF q = <<>> THEN ""
    ELSE "?" \o q[1] \o "=1" \o Joined([i \in 1..(Len(q) - 1) |-> q[i + 1] \o "=1"], 1, "&")

\* URL.href of a URL that parses
Href(url) ==
    "https://" \o url.host
        \o (IF url.path = <<>> THEN "/" ELSE Joined(url.path, 1, "/"))
        \o Repeated("/", url.slashes)
        \o Search(url.query)
        \o (IF url.frag = "" THEN "" ELSE "#" \o url.frag)

\* the skipPatterns of isResourceUrl
skipPatterns ==
    {"/feed/", "/rss/", "/wp-json/", "/api/", "?replytocom=", "?share=", "?print=",
     "/tag/", "/author/", "/category/", "/page/", "/?p=", "/?page_id="}

\* the lowercased canonical form of the URL enqueue was called with
CanonicalLower == toLowerCase(Href(normalizeUrl(ret.url)))

\* that string ends with a static-asset extension
AssetExtension(href) == \E ext \in resourceExtensions : endsWith(href, ext)

\* that string contains a non-page pattern
NonPagePattern(href) == \E pattern \in skipPatterns : includes(href, pattern)

\* C23: enqueue returns false for a same-host URL whose canonical form,
\* lowercased, ends with a listed extension or contains a listed pattern,
\* and true for a same-host URL that is not visited and matches neither;
\* it returns true for https://example.com/path/to/deep/page when that page
\* is not visited.
C23_ResourceFilter ==
    (ret.op = "enqueue" /\ ret.url.valid /\ hostname(ret.url) = baseDomain) =>
        LET href == CanonicalLower
            resource == AssetExtension(href) \/ NonPagePattern(href)
        IN  /\ resource => ~ret.ok
            /\ (~resource /\ normalizeUrl(ret.url) \notin visited) => ret.ok
            /\ (ret.url = DeepPage /\ DeepPage \notin visited) => ret.ok

\* enqueue refused an unvisited same-host URL for a pattern of its canonical
\* form alone, not for an extension
C23_Witness ==
    /\ ret.op = "enqueue"
    /\ ret.url.valid
    /\ hostname(ret.url) = baseDomain
    /\ normalizeUrl(ret.url) \notin visited
    /\ NonPagePattern(CanonicalLower)
    /\ ~AssetExtension(CanonicalLower)
    /\ ~ret.ok


\* C24 as claimed: normalizeUrl is idempotent on the URL enqueue or
\* markVisited was called with, and every URL stored in the queue or in
\* the visited set is a fixed point of normalizeUrl.
C24_Idempotent ==
    /\ ret.op \in {"enqueue", "markVisited"} =>
          normalizeUrl(normalizeUrl(ret.url)) = normalizeUrl(ret.url)
    /\ \A i \in 1..Len(queue) : normalizeUrl(queue[i].url) = queue[i].url
    /\ \A url \in visited : normalizeUrl(url) = url

---------------------------------------------------------------------------
(* Claims about link extraction, checked under SpecCrawl.                  *)

\* the item of the last crawlPage call
LastTaken == taken[Len(taken)]

\* C25 as claimed: when the link extraction of a fetched page fails, a
\* CrawlError for the URL of that page is recorded, and the loop goes on.
C25_ExtractionFailureRecorded ==
    extraction = "failed" =>
        /\ pc = "loop"
        /\ errors # <<>>
        /\ errors[Len(errors)].url = LastTaken.url


\* C26: the start URL is the first item enqueued, at depth 0 and without a
\* parent; a turn of the loop that fetched a page at depth d enqueues items
\* of depth d + 1 whose parentUrl is the URL of that page, and no other step
\* enqueues; the items enqueued are, unchanged and in order, the items
\* dequeued followed by the items still waiting.
C26_DepthAlongChains ==
    /\ [](/\ accepted # <<>> => accepted[1] = Item(Root, 0, NoUrl)
          /\ accepted = taken \o queue)
    /\ [][/\ SubSeq(accepted', 1, Len(accepted)) = accepted
          /\ ~CrawlPageStep => accepted' = accepted
          /\ CrawlPageStep =>
                \A i \in (Len(accepted) + 1)..Len(accepted') :
                    /\ accepted'[i].depth = TakenItem.depth + 1
                    /\ accepted'[i].parentUrl = TakenItem.url]_vars

\* a page found at depth 1 was fetched and a link of it was enqueued at
\* depth 2 with that page as parent
C26_Witness ==
    \E i \in 1..Len(accepted), j \in 1..Len(taken) :
        /\ accepted[i].depth = 2
        /\ taken[j].depth = 1
        /\ accepted[i].parentUrl = taken[j].url

---------------------------------------------------------------------------
(* Claims about the waits of ConsentTester, checked under SpecConsent.     *)

\* the positions in `events` of the snapshots of the accept and reject phases
ActionSnapshots ==
    {i \in 1..Len(events) : events[i].ev = "captured" /\ events[i].phase # "before"}

\* the event at position i was a settle wait that followed the selector
\* search of the same phase
SettledAfterSearch(i) ==
    /\ i > 2
    /\ events[i - 1].ev = "settleWait"
    /\ events[i - 2].ev = "click"
    /\ events[i - 2].phase = events[i].phase

\* C27 as claimed: every snapshot of an accept or reject phase follows a
\* settle wait that follows the selector search, whether a control was
\* clicked or not.
C27_AlwaysSettles == \A i \in ActionSnapshots : SettledAfterSearch(i)

\* C27: in the accept and reject phases the selector search follows the
\* wait for the dialog; when it clicked a control, a settle wait takes place
\* between it and the snapshot; when it clicked none, the snapshot is taken
\* directly after the search, with no settle wait.
C27_SettlesAfterClick ==
    /\ \A i \in 1..Len(events) :
          events[i].ev = "click" => (i > 1 /\ events[i - 1].ev = "loadWait")
    /\ \A i \in ActionSnapshots :
          IF events[i].click.found
          THEN SettledAfterSearch(i)
          ELSE /\ events[i - 1].ev = "click"
               /\ events[i - 1].phase = events[i].phase
               /\ ~events[i - 1].click.found

\* the accept phase clicked a control and its snapshot followed a settle
\* wait; the reject phase found none and its snapshot followed the search
C27_Witness ==
    \E i, j \in ActionSnapshots :
        /\ events[i].phase = "accept"
        /\ events[i].click.found
        /\ events[i - 1].ev = "settleWait"
        /\ events[j].phase = "reject"
        /\ ~events[j].click.found
        /\ events[j - 1].ev = "click"

---------------------------------------------------------------------------
(* Claims about the third-party verdict of CookieAnalyzer, checked under   *)
(* SpecAnalyze.                                                            *)

\* the reason of the +3 increment
ThirdPartyReason == "Third-party tracking service"

\* C28 as claimed: an analysis with isActuallyThirdParty = true carries the
\* reason 'Third-party tracking service' and a riskLevel of at least medium.
C28_VerdictImpliesIncrements ==
    (Analyzed /\ analysis.isActuallyThirdParty) =>
        /\ ThirdPartyReason \in Range(analysis.riskReasons)
        /\ analysis.riskLevel \in {"medium", "high", "critical"}

\* the cookie 'cart' captured as third-party on tracker.net was reported
\* third-party with a low risk and no reason
C28_Witness ==
    /\ Analyzed
    /\ cookie.name = "cart"
    /\ cookie.domain = "tracker.net"
    /\ analysis.isActuallyThirdParty
    /\ analysis.riskLevel = "low"
    /\ analysis.riskReasons = <<>>

---------------------------------------------------------------------------
(* Claims about the batch analysis of CookieAnalyzer, checked under        *)
(* SpecBatch.                                                              *)

\* the analyses analyzeCookies returned
Batched == analyses.value

\* the number of analyses of the batch with the vendor of analysis i
SameVendor(list, i) ==
    Cardinality({j \in 1..Len(list) : list[j].actualVendor = list[i].actualVendor})

\* how many times a reason occurs among the reasons of an analysis
Occurrences(a, reason) ==
    Cardinality({k \in 1..Len(a.riskReasons) : a.riskReasons[k] = reason})

\* C21: after analyzeCookies, an analysis carries the reason 'Excessive
\* cookies from vendor' exactly when more than 5 analyses of the batch have
\* its vendor and its category is not 'necessary'; it then has isUnnecessary
\* = true and carries the reason once; the analyses of a vendor with exactly
\* 5 cookies do not carry it.
C21_ExcessiveVendorRule ==
    analyses.returned =>
        LET list == Batched
        IN  \A i \in 1..Len(list) :
                LET count == SameVendor(list, i)
                    times == Occurrences(list[i], ExcessiveReason)
                IN  /\ times > 0 <=> (count > 5 /\ list[i].category # "necessary")
                    /\ times > 0 => (list[i].isUnnecessary /\ times = 1)
                    /\ count = 5 => times = 0

\* a batch with 7 cookies of one vendor, all flagged, with 5 cookies of
\* another vendor, none flagged, and with 7 'necessary' cookies of a third,
\* none flagged
C21_Witness ==
    /\ analyses.returned
    /\ LET list == Batched
       IN  \E i, j, k \in 1..Len(list) :
              /\ SameVendor(list, i) = 7
              /\ Occurrences(list[i], ExcessiveReason) = 1
              /\ list[i].isUnnecessary
              /\ SameVendor(list, j) = 5
              /\ Occurrences(list[j], ExcessiveReason) = 0
              /\ ~list[j].isUnnecessary
              /\ SameVendor(list, k) = 7
              /\ list[k].category = "necessary"
              /\ Occurrences(list[k], ExcessiveReason) = 0

\* analysis a is analysis b with isUnnecessary set and the reason appended
Flagged(a, b) ==
    a = [b EXCEPT !.isUnnecessary = TRUE,
                  !.riskReasons = Append(@, ExcessiveReason)]

\* C29: analyzeCookies returns one analysis per cookie of the batch, in the
\* order of the batch; each is what analyzeCookie returns for that cookie,
\* or that with isUnnecessary = true and the one reason appended, and all
\* its other fields as they were; the analyses of a vendor with at most 5
\* cookies and the 'necessary' analyses are what analyzeCookie returns.
C29_BatchFrame ==
    analyses.returned =>
        LET list == Batched
        IN  /\ Len(list) = Len(batch)
            /\ \A i \in 1..Len(list) :
                  LET alone == analyzeCookie(batch[i], list[i].now)
                  IN  /\ list[i].cookie = batch[i]
                      /\ list[i] = alone \/ Flagged(list[i], alone)
                      /\ alone.isUnnecessary => list[i].isUnnecessary
                      /\ (SameVendor(list, i) <= 5 \/ alone.category = "necessary")
                            => list[i] = alone

\* a batch in which a legacy cookie that analyzeCookie alone finds
\* unnecessary was flagged, and a 'necessary' cookie of a vendor with more
\* than 5 cookies, some of them flagged, was left as it was
C29_Witness ==
    /\ analyses.returned
    /\ LET list == Batched
           alone == [i \in 1..Len(list) |-> analyzeCookie(batch[i], list[i].now)]
       IN  /\ \E i \in 1..Len(list) :
                 /\ alone[i].isUnnecessary
                 /\ Flagged(list[i], alone[i])
           /\ \E j, k \in 1..Len(list) :
                 /\ list[j].category = "necessary"
                 /\ list[j] = alone[j]
                 /\ list[k].actualVendor = list[j].actualVendor
                 /\ list[k].category # "necessary"
                 /\ Flagged(list[k], alone[k])

---------------------------------------------------------------------------
(* Claims about the aggregation of CookieScanner, checked under            *)
(* SpecAggregate.                                                          *)

\* the position of the first item of list that f maps to what it maps
\* list[i] to
FirstLike(list, i, f(_)) ==
    CHOOSE j \in 1..i : f(list[j]) = f(list[i]) /\ \A k \in 1..(j - 1) : f(list[k]) # f(list[i])

\* unique holds, for each item of list, exactly one item that f maps to the
\* same identity, and that item is the first such item of list; and it holds
\* nothing else
OnePerIdentity(unique, list, f(_)) ==
    /\ \A i \in 1..Len(list) :
          /\ Cardinality({k \in 1..Len(unique) : f(unique[k]) = f(list[i])}) = 1
          /\ \E k \in 1..Len(unique) : unique[k] = list[FirstLike(list, i, f)]
    /\ \A k \in 1..Len(unique) : \E i \in 1..Len(list) : unique[k] = list[i]

\* the (name, domain) pair of a cookie
Identity(c) == <<c.name, c.domain>>

\* the totals count before deduplication, uniqueScripts holds one script per
\* URL, and the third-party lists are the third-party members of the unique
\* lists
AggregateRest ==
    aggregated.returned =>
        LET a == aggregated.value
        IN  /\ a.totalCookies = Len(allCookies(scanResults))
            /\ a.totalScripts = Len(allScripts(scanResults))
            /\ OnePerIdentity(a.uniqueScripts, allScripts(scanResults), LAMBDA s : s.url)
            /\ a.thirdPartyCookies = SelectSeq(a.uniqueCookies, LAMBDA c : c.isThirdParty)
            /\ a.thirdPartyScripts = SelectSeq(a.uniqueScripts, LAMBDA s : s.isThirdParty)

\* C22: the aggregate holds in uniqueCookies exactly one cookie, the first
\* scanned, for each (name, domain) pair among the scanned cookies, so that
\* two cookies are merged only if their names are equal and their domains
\* are equal; uniqueScripts holds one script per URL; the third-party lists
\* are the third-party members of the unique lists; the totals count before
\* deduplication.
C22_DedupByIdentity ==
    /\ AggregateRest
    /\ aggregated.returned =>
          OnePerIdentity(aggregated.value.uniqueCookies, allCookies(scanResults), Identity)

\* two scanned cookies with different names and different domains were
\* merged: the aggregate holds the first and not the second
C22_Witness ==
    /\ aggregated.returned
    /\ LET list == allCookies(scanResults)
           unique == aggregated.value.uniqueCookies
       IN  \E i, j \in 1..Len(list) :
              /\ i < j
              /\ list[i].name # list[j].name
              /\ list[i].domain # list[j].domain
              /\ \E k \in 1..Len(unique) : unique[k] = list[i]
              /\ \A k \in 1..Len(unique) : Identity(unique[k]) # Identity(list[j])

---------------------------------------------------------------------------
(* Claims about overlapping testConsent() calls, checked under SpecOverlap. *)

\* the two calls were in flight at the same time
Overlapped == \E c \in Callers : calls[c].overlapped

AllSettled == \A c \in Callers : calls[c].at = "settled"

\* each call runs its phases on a browser that is open, no call fails
\* because the browser is null or closed, and once every call has settled
\* every browser that was launched is closed
CallsSafe ==
    /\ \A c \in Callers :
          /\ calls[c].at = "capturing" => launched[calls[c].on] = "open"
          /\ calls[c].failed \notin {"Browser not initialized", "browser has been closed"}
    /\ AllSettled => \A b \in 1..Len(launched) : launched[b] = "closed"

\* calls that are not in flight at the same time are safe
SequentialSafe == ~Overlapped => CallsSafe

\* C30: if two testConsent calls on one ConsentTester are in flight at the
\* same time, each call runs all its phases on a browser that is still
\* open, no call fails with 'Browser not initialized', and once both calls
\* have settled every launched browser has been closed.
C30_OverlapSafe == Overlapped => CallsSafe

\* both calls have settled after being in flight at the same time: one
\* completed its three phases, the other failed with 'Browser not
\* initialized', and a browser that was launched is still open
C30_Witness ==
    /\ Overlapped
    /\ AllSettled
    /\ \E c, d \in Callers :
          /\ calls[c].phase = PhaseCount /\ calls[c].failed = ""
          /\ calls[d].failed = "Browser not initialized"
    /\ \E b \in 1..Len(launched) : launched[b] = "open"

====
